---- MODULE Spec2Model ----
(***************************************************************************)
(* Model of the libvirt-dbus provider of cockpit-machines                  *)
(* (src/src/libvirt-dbus.js): the client-side store that mirrors the       *)
(* remote libvirt objects, the single-entity fetchers, the bulk refreshes, *)
(* the D-Bus event monitor and the usage poller.                           *)
(*                                                                         *)
(* Every remote call is a suspension point: a promise chain is a task with *)
(* a program counter naming the call it waits for, and one action handles  *)
(* one reply (or one failure) and runs the handler to completion, the      *)
(* store dispatches and the promise settlements that follow included.      *)
(* Replies of the remote side are inputs, drawn from small sets.           *)
(*                                                                         *)
(* The store's reducers, the XML parsers and helpers.js are not part of    *)
(* the sources at hand; they are modelled from the specification.          *)
(***************************************************************************)
EXTENDS Integers, Sequences, FiniteSets, TLC

(***************************************************************************)
(* Bounds                                                                  *)
(***************************************************************************)
MaxTasks == 2          \* handlers and promise chains started in one behaviour
MaxDetections == 3     \* detections the create-VM dialog starts

(***************************************************************************)
(* Value sets of the inputs                                                *)
(***************************************************************************)
Scopes == {"system", "session"}
Paths == {"/p1", "/p2"}
XmlDocs == {"xmlA", "xmlB"}          \* replies of GetXMLDesc([SECURE])
InactiveXmlDocs == {"xmlA"}          \* replies of GetXMLDesc([SECURE | INACTIVE])

\* the object literal {}
EmptyObj == [k \in {} |-> TRUE]

\* Object.assign({}, a, b)
Assign(a, b) ==
    [k \in DOMAIN a \cup DOMAIN b |-> IF k \in DOMAIN b THEN b[k] ELSE a[k]]

Has(obj, k) == k \in DOMAIN obj

Remove(f, k) == [x \in DOMAIN f \ {k} |-> f[x]]

Put(f, k, v) == [x \in DOMAIN f \cup {k} |-> IF x = k THEN v ELSE f[x]]

\* the name libvirt reports for the domain at an object path
NameOf(path) == IF path = "/p1" THEN "vm1" ELSE "vm2"

(***************************************************************************)
(* helpers.js, libvirt-common.js                                           *)
(***************************************************************************)
DOMAINSTATE ==
    <<"no state", "running", "blocked", "paused", "shutdown", "shut off",
      "crashed", "pmsuspended">>

isRunning(vmState) == vmState \in {"running", "idle", "paused"}

\* the parsed descriptor of a domain XML document
parseDumpxml(connectionName, domXml, objPath) ==
    [connectionName |-> connectionName, id |-> objPath, config |-> domXml]

VIR_DOMAIN_SHUTOFF == 5

(***************************************************************************)
(* JavaScript values.  A number that a division made is kept as the        *)
(* fraction: a division by zero does not throw, it gives Infinity or NaN,  *)
(* here the fraction with denominator 0.                                   *)
(***************************************************************************)
jsNum(n) == [num |-> n, den |-> 1]

jsDiv(a, b) == [num |-> a, den |-> b]

\* Number.prototype.toString of the numbers the statistics replies carry
numToString(n) == <<"0", "1", "2", "3", "4", "5", "6", "7", "8", "9">>[n + 1]

\* the value NaN, where a string is expected otherwise
NaN == "NaN"

\* the value undefined, where an object is expected otherwise
undefined == [undefined |-> TRUE]

(***************************************************************************)
(* The store: domain records keyed by <<connection scope, object path>>.   *)
(***************************************************************************)
clearUsageData(vm) ==
    Assign(vm, [actualTimeInMs |-> -1, cpuTime |-> jsNum(0), rssMemory |-> 0,
                disksStats |-> EmptyObj])

\* merge of an update into a stored record: only the keys of the update are
\* overwritten; an update marked with a negative sample time resets the
\* usage sample first
mergeVm(old, vm) ==
    IF Has(vm, "actualTimeInMs") /\ vm.actualTimeInMs < 0
    THEN Assign(clearUsageData(old), vm)
    ELSE Assign(old, vm)

\* the stored records an update addresses: by object path when the update
\* has one, by name otherwise
findVmToUpdate(state, vm) ==
    IF Has(vm, "id")
    THEN {k \in DOMAIN state : k = <<vm.connectionName, vm.id>>}
    ELSE {k \in DOMAIN state : /\ k[1] = vm.connectionName
                               /\ Has(state[k], "name")
                               /\ state[k].name = vm.name}

updateVm(state, vm) ==
    LET ks == findVmToUpdate(state, vm)
    IN  IF ks = {} THEN state
        ELSE LET k == CHOOSE x \in ks : TRUE
             IN  Put(state, k, mergeVm(state[k], vm))

updateOrAddVm(state, vm) ==
    LET ks == findVmToUpdate(state, vm)
    IN  IF ks = {}
        THEN Put(state, <<vm.connectionName, vm.id>>, mergeVm(EmptyObj, vm))
        ELSE LET k == CHOOSE x \in ks : TRUE
             IN  Put(state, k, mergeVm(state[k], vm))

undefineVm(state, connectionName, id) ==
    [k \in DOMAIN state \ {<<connectionName, id>>} |-> state[k]]

deleteUnlistedVMs(state, connectionName, vmIDs) ==
    [k \in {x \in DOMAIN state : x[1] # connectionName \/ x[2] \in vmIDs}
        |-> state[k]]

\* one dispatched store action applied to the domain collection
vmsReducer(state, action) ==
    CASE action.type = "UPDATE_VM" -> updateVm(state, action.vm)
      [] action.type = "UPDATE_ADD_VM" -> updateOrAddVm(state, action.vm)
      [] action.type = "UNDEFINE_VM" ->
            undefineVm(state, action.connectionName, action.id)
      [] action.type = "DELETE_UNLISTED_VMS" ->
            deleteUnlistedVMs(state, action.connectionName, action.vmIDs)
      [] OTHER -> state

RECURSIVE dispatchAll(_, _)
dispatchAll(state, actions) ==
    IF actions = <<>> THEN state
    ELSE dispatchAll(vmsReducer(state, Head(actions)), Tail(actions))

(***************************************************************************)
(* The store: interface records keyed by <<connection scope, object path>> *)
(* and node device records keyed by <<connection scope, device name>>.     *)
(***************************************************************************)
updateOrAddInterface(state, iface) ==
    LET k == <<iface.connectionName, iface.id>>
    IN  IF k \in DOMAIN state THEN Put(state, k, Assign(state[k], iface))
        ELSE Put(state, k, iface)

updateOrAddNodeDevice(state, nodedev) ==
    LET k == <<nodedev.connectionName, nodedev.name>>
    IN  IF k \in DOMAIN state THEN Put(state, k, Assign(state[k], nodedev))
        ELSE Put(state, k, nodedev)

interfacesReducer(state, action) ==
    IF action.type = "UPDATE_ADD_INTERFACE"
    THEN updateOrAddInterface(state, action.iface)
    ELSE state

nodeDevicesReducer(state, action) ==
    IF action.type = "UPDATE_ADD_NODE_DEVICE"
    THEN updateOrAddNodeDevice(state, action.nodedev)
    ELSE state

\* the parsed descriptors of an interface and of a node device XML document
parseIfaceDumpxml(xml) == [config |-> xml]

parseNodeDeviceDumpxml(deviceXml) ==
    [name |-> deviceXml.name, path |-> deviceXml.path,
     capability |-> [type |-> deviceXml.cap]]

\* the udev database of a device, a sequence of <<key, value>> lines, as an
\* object
parseUdevDB(output) ==
    [k \in {output[i][1] : i \in DOMAIN output} |->
        LET i == CHOOSE n \in DOMAIN output : output[n][1] = k
        IN  output[i][2]]

(***************************************************************************)
(* State                                                                   *)
(***************************************************************************)
VARIABLES
    vms,          \* store: domain records, <<scope, path>> -> record
    interfaces,   \* store: interface records, <<scope, path>> -> record
    nodeDevices,  \* store: node device records, <<scope, name>> -> record
    networks,     \* store: network records, <<scope, path>> -> record
    storagePools, \* store: storage pool records, <<scope, path>> -> record
    tasks,        \* promise chains in flight, id -> task
    nextId,       \* next task id
    subs,         \* connection name -> number of subscription sets registered
    timers,       \* pending window.setTimeout callbacks
    hidden,       \* cockpit.hidden
    libvirtState, \* state of the libvirt service, as the store has it
    remote,       \* the remote domain, where a specification keeps it fixed
    seen,         \* the record a first fetch left, where a specification
                  \* compares two fetches
    dialog,       \* the create-VM dialog: its state and its detection handle
    calls,        \* number of getApiData invocations with a connection name
    last          \* what the handler that ran last did: its reply, the store
                  \* actions it dispatched, the chains it started, the bulk
                  \* refresh it completed

vars == <<vms, interfaces, nodeDevices, networks, storagePools, tasks, nextId,
          subs, timers, hidden, libvirtState, remote, seen, dialog, calls,
          last>>

pools == <<networks, storagePools>>
devs == <<interfaces, nodeDevices, pools>>
poller == <<timers, hidden, libvirtState>>
harness == <<remote, seen, dialog, calls>>

\* the dialog as its constructor leaves it: no detection in progress, no
\* handle (0), no operating system chosen
CreateVmModal ==
    [autodetectOSInProgress |-> FALSE, autodetectOSPromise |-> 0,
     os |-> "", sourceMediaID |-> ""]

ConnNames == Scopes \cup {"remote"}

NoBulk == [kind |-> "none"]

\* existed: whether the store held a domain record for <<conn, id>> when the
\* handler started
mkLast(op, conn, id, updateOnly, failed, reply, dispatched, issued, bulk) ==
    [op |-> op, conn |-> conn, id |-> id, updateOnly |-> updateOnly,
     failed |-> failed, reply |-> reply, dispatched |-> dispatched,
     issued |-> issued, bulk |-> bulk, existed |-> <<conn, id>> \in DOMAIN vms,
     transient |-> /\ <<conn, id>> \in DOMAIN vms
                   /\ Has(vms[<<conn, id>>], "persistent")
                   /\ ~vms[<<conn, id>>].persistent]

(***************************************************************************)
(* Promise settlement.  A chain that ends is removed; when it was started  *)
(* by a bulk refresh, the Promise.all of that refresh sees its outcome: it *)
(* rejects on the first rejection and fulfils when nothing is pending.     *)
(***************************************************************************)
bulkOf(task, outcome) ==
    [kind |-> task.kind, conn |-> task.conn, listed |-> task.listed,
     outcome |-> outcome, failed |-> task.failed, had |-> task.had]

\* a settlement in which the first failure ends the refresh and the fetches
\* it had started
SettleAbort(ts, t, outcome, caught) ==
    LET p == ts[t].parent
        rest == Remove(ts, t)
    IN  IF p = 0 \/ p \notin DOMAIN rest
        THEN [tasks |-> rest, bulk |-> NoBulk]
        ELSE LET par == [rest[p] EXCEPT
                            !.pending = IF caught THEN {} ELSE @ \ {t},
                            !.failed = IF caught THEN @ \cup {ts[t].id} ELSE @]
                 others == {u \in DOMAIN rest : rest[u].parent = p}
                 alive == IF caught
                          THEN [u \in DOMAIN rest \ others |-> rest[u]]
                          ELSE rest
             IN  IF par.pending = {}
                 THEN [tasks |-> Remove(alive, p),
                       bulk |-> bulkOf(par, "fulfilled")]
                 ELSE [tasks |-> [alive EXCEPT ![p] = par], bulk |-> NoBulk]

\* chain t ends with outcome; caught tells that a call of it had failed
Settle(ts, t, outcome, caught) ==
    LET p == ts[t].parent
        rest == Remove(ts, t)
    IN  IF p = 0 \/ p \notin DOMAIN rest
        THEN [tasks |-> rest, bulk |-> NoBulk]
        ELSE LET par == [rest[p] EXCEPT
                            !.pending = @ \ {t},
                            !.failed = IF caught THEN @ \cup {ts[t].id} ELSE @]
             IN  IF outcome = "rejected"
                 THEN [tasks |-> Remove(rest, p), bulk |-> bulkOf(par, "rejected")]
                 ELSE IF par.pending = {}
                 THEN [tasks |-> Remove(rest, p), bulk |-> bulkOf(par, "fulfilled")]
                 ELSE [tasks |-> [rest EXCEPT ![p] = par], bulk |-> NoBulk]

(***************************************************************************)
(* getVm                                                                   *)
(***************************************************************************)
newGetVm(connectionName, objPath, updateOnly, parent) ==
    [kind |-> "getVm", conn |-> connectionName, id |-> objPath,
     updateOnly |-> updateOnly, pc |-> "GetXMLDesc", domainXML |-> "",
     props |-> EmptyObj, parent |-> parent]

fetchOf(fn, connectionName, objPath, updateOnly) ==
    [fn |-> fn, connectionName |-> connectionName, id |-> objPath,
     updateOnly |-> updateOnly]

\* the UI state of a domain; nothing in the model sets one
resolveUiState(name, connectionName) ==
    [initiallyExpanded |-> FALSE, initiallyOpenedConsoleTab |-> FALSE]

\* the handler of the GetState reply without the mark of a domain that is
\* not running
propsAfterGetStateUnmarked(props, connectionName, objPath, state) ==
    Assign(props, [connectionName |-> connectionName, id |-> objPath,
                   state |-> DOMAINSTATE[state[1][1] + 1]])

\* the handler of the GetState reply deciding by the state of the stored
\* record instead of the state in the reply
propsAfterGetStateStored(props, connectionName, objPath, state) ==
    LET p == Assign(props, [connectionName |-> connectionName,
                            id |-> objPath,
                            state |-> DOMAINSTATE[state[1][1] + 1]])
        key == <<connectionName, objPath>>
    IN  IF key \in DOMAIN vms /\ ~isRunning(vms[key].state)
        THEN Assign(p, [actualTimeInMs |-> -1])
        ELSE p

\* props once the GetState reply is handled
propsAfterGetState(props, connectionName, objPath, state) ==
    LET stateStr == DOMAINSTATE[state[1][1] + 1]
        p == Assign(props, [connectionName |-> connectionName,
                            id |-> objPath, state |-> stateStr])
    IN  IF ~isRunning(stateStr)
        THEN Assign(p, [actualTimeInMs |-> -1])
        ELSE p

\* the handler of the GetAll reply without the checks for the keys
propsAfterGetAllUnchecked(props, returnProps) ==
    LET p3 == Assign(props,
                [name |-> IF Has(returnProps, "Name")
                          THEN returnProps.Name ELSE "undefined",
                 persistent |-> IF Has(returnProps, "Persistent")
                                THEN returnProps.Persistent ELSE FALSE,
                 autostart |-> IF Has(returnProps, "Autostart")
                               THEN returnProps.Autostart ELSE FALSE])
    IN  Assign(p3, [ui |-> resolveUiState(p3.name, p3.connectionName)])

\* props once the GetAll reply is handled: a key the reply lacks is not set
propsAfterGetAll(props, returnProps) ==
    LET p1 == IF Has(returnProps, "Name")
              THEN Assign(props, [name |-> returnProps.Name]) ELSE props
        p2 == IF Has(returnProps, "Persistent")
              THEN Assign(p1, [persistent |-> returnProps.Persistent]) ELSE p1
        p3 == IF Has(returnProps, "Autostart")
              THEN Assign(p2, [autostart |-> returnProps.Autostart]) ELSE p2
    IN  Assign(p3, [ui |-> resolveUiState(
                        IF Has(p3, "name") THEN p3.name ELSE "undefined",
                        p3.connectionName)])

\* getVm without the updateOnly branch: the record is always upserted
getVmActionUpsert(updateOnly, props, dumpxmlParams) ==
    [type |-> "UPDATE_ADD_VM", vm |-> Assign(props, dumpxmlParams)]

\* getVm leaving a record the store already has as it is: the first writer
\* wins
getVmActionFirstWins(updateOnly, props, dumpxmlParams) ==
    IF <<props.connectionName, props.id>> \in DOMAIN vms
    THEN [type |-> "UPDATE_VM",
          vm |-> [connectionName |-> props.connectionName, id |-> props.id]]
    ELSE [type |-> "UPDATE_ADD_VM", vm |-> Assign(props, dumpxmlParams)]

\* the store action getVm dispatches at its end
getVmAction(updateOnly, props, dumpxmlParams) ==
    IF updateOnly
    THEN [type |-> "UPDATE_VM", vm |-> Assign(props, dumpxmlParams)]
    ELSE [type |-> "UPDATE_ADD_VM", vm |-> Assign(props, dumpxmlParams)]

\* a handler that passes the failure on
getVmCatchRethrows == "rejected"

\* the outcome of a getVm chain one of whose calls failed
getVmCatch == "fulfilled"

\* replies of the remote side
StateReplies == {<<<<1, 1>>>>, <<<<5, 1>>>>}

PropBags(path) ==
    {Assign(Assign(n, p), a) :
        n \in {EmptyObj, [Name |-> NameOf(path)]},
        p \in {EmptyObj, [Persistent |-> TRUE], [Persistent |-> FALSE]},
        a \in {EmptyObj, [Autostart |-> TRUE]}}

\* a call of the chain fails: .catch logs, the chain fulfils
GetVmFail(t) ==
    /\ t \in DOMAIN tasks
    /\ tasks[t].kind = "getVm"
    /\ LET s == Settle(tasks, t, getVmCatch, TRUE)
       IN  /\ tasks' = s.tasks
           /\ last' = mkLast("getVm." \o tasks[t].pc, tasks[t].conn,
                             tasks[t].id, tasks[t].updateOnly, TRUE, "error",
                             <<>>, <<>>, s.bulk)
    /\ UNCHANGED <<vms, nextId, subs, devs, poller, harness>>

GetVmXMLDesc(t) ==
    /\ t \in DOMAIN tasks
    /\ tasks[t].kind = "getVm"
    /\ tasks[t].pc = "GetXMLDesc"
    /\ \E domXml \in XmlDocs :
        /\ tasks' = [tasks EXCEPT ![t].domainXML = domXml,
                                  ![t].pc = "GetXMLDescInactive"]
        /\ last' = mkLast("getVm.GetXMLDesc", tasks[t].conn, tasks[t].id,
                          tasks[t].updateOnly, FALSE, domXml, <<>>, <<>>,
                          NoBulk)
    /\ UNCHANGED <<vms, nextId, subs, devs, poller, harness>>

GetVmXMLDescInactive(t) ==
    /\ t \in DOMAIN tasks
    /\ tasks[t].kind = "getVm"
    /\ tasks[t].pc = "GetXMLDescInactive"
    /\ \E domInactiveXml \in InactiveXmlDocs :
        /\ tasks' = [tasks EXCEPT
              ![t].props = Assign(@, [inactiveXML |->
                  parseDumpxml(tasks[t].conn, domInactiveXml, tasks[t].id)]),
              ![t].pc = "GetState"]
        /\ last' = mkLast("getVm.GetXMLDescInactive", tasks[t].conn,
                          tasks[t].id, tasks[t].updateOnly, FALSE,
                          domInactiveXml, <<>>, <<>>, NoBulk)
    /\ UNCHANGED <<vms, nextId, subs, devs, poller, harness>>

GetVmGetState(t) ==
    /\ t \in DOMAIN tasks
    /\ tasks[t].kind = "getVm"
    /\ tasks[t].pc = "GetState"
    /\ \E state \in StateReplies :
        /\ tasks' = [tasks EXCEPT
              ![t].props = propsAfterGetState(@, tasks[t].conn, tasks[t].id,
                                              state),
              ![t].pc = "GetAll"]
        /\ last' = mkLast("getVm.GetState", tasks[t].conn, tasks[t].id,
                          tasks[t].updateOnly, FALSE, state, <<>>, <<>>,
                          NoBulk)
    /\ UNCHANGED <<vms, nextId, subs, devs, poller, harness>>

\* the GetAll reply: the record is dispatched.  The snapshot listing the
\* handler starts afterwards is a chain of its own and is left out.
GetVmGetAll(t) ==
    /\ t \in DOMAIN tasks
    /\ tasks[t].kind = "getVm"
    /\ tasks[t].pc = "GetAll"
    /\ \E returnProps \in PropBags(tasks[t].id) :
        LET props == propsAfterGetAll(tasks[t].props, returnProps)
            dumpxmlParams == parseDumpxml(tasks[t].conn, tasks[t].domainXML,
                                          tasks[t].id)
            action == getVmAction(tasks[t].updateOnly, props, dumpxmlParams)
            s == Settle(tasks, t, "fulfilled", FALSE)
        IN  /\ vms' = vmsReducer(vms, action)
            /\ tasks' = s.tasks
            /\ last' = mkLast("getVm.GetAll", tasks[t].conn, tasks[t].id,
                              tasks[t].updateOnly, FALSE, returnProps,
                              <<action>>, <<>>, s.bulk)
    /\ UNCHANGED <<nextId, subs, devs, poller, harness>>

(***************************************************************************)
(* getInterface: the chain is started and not returned                     *)
(***************************************************************************)
newGetInterface(connectionName, objPath) ==
    [kind |-> "getInterface", conn |-> connectionName, id |-> objPath,
     updateOnly |-> FALSE, pc |-> "GetAll", props |-> EmptyObj, parent |-> 0]

\* props once the GetAll reply is handled: a key the reply lacks is not set
ifacePropsAfterGetAll(props, resultProps, connectionName, objPath) ==
    LET p1 == IF Has(resultProps, "Active")
              THEN Assign(props, [active |-> resultProps.Active]) ELSE props
        p2 == IF Has(resultProps, "MAC")
              THEN Assign(p1, [mac |-> resultProps.MAC]) ELSE p1
        p3 == IF Has(resultProps, "Name")
              THEN Assign(p2, [name |-> resultProps.Name]) ELSE p2
    IN  Assign(p3, [id |-> objPath, connectionName |-> connectionName])

getInterfaceAction(props, iface) ==
    [type |-> "UPDATE_ADD_INTERFACE", iface |-> Assign(props, iface)]

IfaceNameOf(path) == IF path = "/p1" THEN "eth1" ELSE "eth2"

IfaceBags(path) ==
    {Assign(Assign(a, m), n) :
        a \in {EmptyObj, [Active |-> TRUE]},
        m \in {EmptyObj, [MAC |-> "52:54:00:00:00:01"]},
        n \in {EmptyObj, [Name |-> IfaceNameOf(path)]}}

GetInterfaceFail(t) ==
    /\ t \in DOMAIN tasks
    /\ tasks[t].kind = "getInterface"
    /\ tasks' = Remove(tasks, t)
    /\ last' = mkLast("getInterface." \o tasks[t].pc, tasks[t].conn,
                      tasks[t].id, FALSE, TRUE, "error", <<>>, <<>>, NoBulk)
    /\ UNCHANGED <<vms, nextId, subs, devs, poller, harness>>

GetInterfaceGetAll(t) ==
    /\ t \in DOMAIN tasks
    /\ tasks[t].kind = "getInterface"
    /\ tasks[t].pc = "GetAll"
    /\ \E resultProps \in IfaceBags(tasks[t].id) :
        /\ tasks' = [tasks EXCEPT
              ![t].props = ifacePropsAfterGetAll(@, resultProps,
                                                 tasks[t].conn, tasks[t].id),
              ![t].pc = "GetXMLDesc"]
        /\ last' = mkLast("getInterface.GetAll", tasks[t].conn, tasks[t].id,
                          FALSE, FALSE, resultProps, <<>>, <<>>, NoBulk)
    /\ UNCHANGED <<vms, nextId, subs, devs, poller, harness>>

GetInterfaceXMLDesc(t) ==
    /\ t \in DOMAIN tasks
    /\ tasks[t].kind = "getInterface"
    /\ tasks[t].pc = "GetXMLDesc"
    /\ \E xml \in XmlDocs :
        LET action == getInterfaceAction(tasks[t].props, parseIfaceDumpxml(xml))
        IN  /\ interfaces' = interfacesReducer(interfaces, action)
            /\ tasks' = Remove(tasks, t)
            /\ last' = mkLast("getInterface.GetXMLDesc", tasks[t].conn,
                              tasks[t].id, FALSE, FALSE, xml, <<action>>,
                              <<>>, NoBulk)
    /\ UNCHANGED <<vms, nodeDevices, pools, nextId, subs, poller, harness>>

(***************************************************************************)
(* getNodeDevice                                                           *)
(***************************************************************************)
newGetNodeDevice(connectionName, objPath, parent) ==
    [kind |-> "getNodeDevice", conn |-> connectionName, id |-> objPath,
     updateOnly |-> FALSE, pc |-> "GetXMLDesc", deviceXmlObject |-> EmptyObj,
     parent |-> parent]

\* whether the udev database is asked about the device
needsUdev(deviceXmlObject) ==
    /\ deviceXmlObject.path # ""
    /\ deviceXmlObject.capability.type \in {"pci", "usb_device"}

\* the device object with what the udev database adds
withUdev(deviceXmlObject, nodeDev) ==
    IF Has(nodeDev, "SUBSYSTEM") /\ nodeDev.SUBSYSTEM = "pci"
    THEN Assign(deviceXmlObject,
                [pciSlotName |-> nodeDev.PCI_SLOT_NAME,
                 class |-> nodeDev.ID_PCI_CLASS_FROM_DATABASE])
    ELSE IF Has(nodeDev, "SUBSYSTEM") /\ nodeDev.SUBSYSTEM = "usb"
    THEN Assign(deviceXmlObject,
                [class |-> nodeDev.ID_USB_CLASS_FROM_DATABASE,
                 busnum |-> nodeDev.BUSNUM, devnum |-> nodeDev.DEVNUM])
    ELSE deviceXmlObject

getNodeDeviceAction(deviceXmlObject) ==
    [type |-> "UPDATE_ADD_NODE_DEVICE", nodedev |-> deviceXmlObject]

\* the outcome of a getNodeDevice chain one of whose calls failed
getNodeDeviceCatch == "fulfilled"

\* the device at an object path keeps its name
NodeXmlDocs(path) ==
    {[name |-> path, path |-> sysfs, cap |-> cap] :
        sysfs \in {"", "/sys/devices/d"}, cap \in {"pci", "usb_device", "net"}}

UdevOutputs ==
    {<<<<"SUBSYSTEM", "pci">>, <<"PCI_SLOT_NAME", "0000:00:01.0">>,
       <<"ID_PCI_CLASS_FROM_DATABASE", "Bridge">>>>,
     <<<<"SUBSYSTEM", "usb">>, <<"ID_USB_CLASS_FROM_DATABASE", "Hub">>,
       <<"BUSNUM", "001">>, <<"DEVNUM", "002">>>>,
     <<>>}

GetNodeDeviceFail(t) ==
    /\ t \in DOMAIN tasks
    /\ tasks[t].kind = "getNodeDevice"
    /\ LET s == Settle(tasks, t, getNodeDeviceCatch, TRUE)
       IN  /\ tasks' = s.tasks
           /\ last' = mkLast("getNodeDevice." \o tasks[t].pc, tasks[t].conn,
                             tasks[t].id, FALSE, TRUE, "error", <<>>, <<>>,
                             s.bulk)
    /\ UNCHANGED <<vms, nextId, subs, devs, poller, harness>>

GetNodeDeviceXMLDesc(t) ==
    /\ t \in DOMAIN tasks
    /\ tasks[t].kind = "getNodeDevice"
    /\ tasks[t].pc = "GetXMLDesc"
    /\ \E deviceXml \in NodeXmlDocs(tasks[t].id) :
        LET deviceXmlObject ==
                Assign(parseNodeDeviceDumpxml(deviceXml),
                       [connectionName |-> tasks[t].conn])
        IN  IF needsUdev(deviceXmlObject)
            THEN /\ tasks' = [tasks EXCEPT
                        ![t].deviceXmlObject = deviceXmlObject,
                        ![t].pc = "udevadm"]
                 /\ last' = mkLast("getNodeDevice.GetXMLDesc", tasks[t].conn,
                                   tasks[t].id, FALSE, FALSE, deviceXml, <<>>,
                                   <<>>, NoBulk)
                 /\ UNCHANGED nodeDevices
            ELSE LET action == getNodeDeviceAction(deviceXmlObject)
                     s == Settle(tasks, t, "fulfilled", FALSE)
                 IN  /\ nodeDevices' = nodeDevicesReducer(nodeDevices, action)
                     /\ tasks' = s.tasks
                     /\ last' = mkLast("getNodeDevice.GetXMLDesc",
                                       tasks[t].conn, tasks[t].id, FALSE,
                                       FALSE, deviceXml, <<action>>, <<>>,
                                       s.bulk)
    /\ UNCHANGED <<vms, interfaces, pools, nextId, subs, poller, harness>>

GetNodeDeviceUdevadm(t) ==
    /\ t \in DOMAIN tasks
    /\ tasks[t].kind = "getNodeDevice"
    /\ tasks[t].pc = "udevadm"
    /\ \E output \in UdevOutputs :
        LET action == getNodeDeviceAction(
                          withUdev(tasks[t].deviceXmlObject,
                                   parseUdevDB(output)))
            s == Settle(tasks, t, "fulfilled", FALSE)
        IN  /\ nodeDevices' = nodeDevicesReducer(nodeDevices, action)
            /\ tasks' = s.tasks
            /\ last' = mkLast("getNodeDevice.udevadm", tasks[t].conn,
                              tasks[t].id, FALSE, FALSE, output, <<action>>,
                              <<>>, s.bulk)
    /\ UNCHANGED <<vms, interfaces, pools, nextId, subs, poller, harness>>

(***************************************************************************)
(* Event monitor.  A handler is a function from its input to its effects:  *)
(* the store actions it dispatches and the chains it starts.               *)
(***************************************************************************)
domainEvent ==
    [Defined |-> 0, Undefined |-> 1, Started |-> 2, Suspended |-> 3,
     Resumed |-> 4, Stopped |-> 5, Shutdown |-> 6, PMsuspended |-> 7,
     Crashed |-> 8]

EventTypes == 0..8

\* the signals of the Domain interface after which the domain is re-read
RefreshSignals ==
    {"BalloonChange", "ControlError", "DeviceAdded", "DeviceRemoved",
     "DiskChange", "MetadataChanged", "TrayChange"}

DomainSignals == RefreshSignals \cup {"AgentEvent"}

effects(dispatched, issued) == [dispatched |-> dispatched, issued |-> issued]

\* the list call of a handler
listMember(kind) ==
    CASE kind = "networkUpdateOrDelete" -> "ListNetworks"
      [] kind = "storagePoolUpdateOrDelete" -> "ListStoragePools"
      [] OTHER -> "ListDomains"

newListTask(kind, connectionName, domPath) ==
    [kind |-> kind, conn |-> connectionName, id |-> domPath,
     pc |-> listMember(kind), parent |-> 0]

\* the chain of networkGet or storagePoolGet
newEntityGet(fn, connectionName, objPath, updateOnly) ==
    [kind |-> fn, conn |-> connectionName, id |-> objPath,
     updateOnly |-> updateOnly, pc |-> "GetAll", parent |-> 0]

\* the chain a started function runs
newTask(f, parent) ==
    CASE f.fn = "getVm" ->
            newGetVm(f.connectionName, f.id, f.updateOnly, parent)
      [] f.fn = "getNodeDevice" ->
            newGetNodeDevice(f.connectionName, f.id, parent)
      [] f.fn = "getInterface" -> newGetInterface(f.connectionName, f.id)
      [] f.fn \in {"networkGet", "storagePoolGet"} ->
            newEntityGet(f.fn, f.connectionName, f.id, f.updateOnly)
      [] OTHER -> newListTask(f.fn, f.connectionName, f.id)

\* ts with the chains of issued started at ids first, first + 1, ...
RECURSIVE startAll(_, _, _, _)
startAll(ts, first, issued, parent) ==
    IF issued = <<>> THEN ts
    ELSE startAll(Put(ts, first, newTask(Head(issued), parent)), first + 1,
                  Tail(issued), parent)

\* a monitor that subscribes whatever the connection name is
startEventMonitorAnyScope(s, connectionName) ==
    [s EXCEPT ![connectionName] = @ + 1]

\* s with the subscriptions startEventMonitor adds: one set (domains,
\* networks, storage pools; events and signals of each)
startEventMonitor(s, connectionName) ==
    IF connectionName # "session" /\ connectionName # "system"
    THEN s
    ELSE [s EXCEPT ![connectionName] = @ + 1]

\* the first start of the monitor of a connection
StartEventMonitor(connectionName) ==
    /\ subs[connectionName] = 0
    /\ subs' = startEventMonitor(subs, connectionName)
    /\ last' = mkLast("startEventMonitor", connectionName, "", FALSE, FALSE,
                      "", <<>>, <<>>, NoBulk)
    /\ UNCHANGED <<vms, tasks, nextId, devs, poller, harness>>

\* the handler treating every event as it treats Stopped
domainEventHandlerStopped(connectionName, objPath, eventType) ==
    [dispatched |-> <<>>,
     issued |-> <<fetchOf("domainUpdateOrDelete", connectionName, objPath,
                          FALSE)>>]

\* the handler re-reading the domain update-only after every event
domainEventHandlerUpdateOnly(connectionName, objPath, eventType) ==
    [dispatched |-> <<>>,
     issued |-> <<fetchOf("getVm", connectionName, objPath, TRUE)>>]

\* the handler re-reading the domain after every event
domainEventHandlerRefetch(connectionName, objPath, eventType) ==
    [dispatched |-> <<>>,
     issued |-> <<fetchOf("getVm", connectionName, objPath, FALSE)>>]

\* the switch of the DomainEvent handler
domainEventHandler(connectionName, objPath, eventType) ==
    CASE eventType = domainEvent.Defined ->
            effects(<<>>, <<fetchOf("getVm", connectionName, objPath, FALSE)>>)
      [] eventType = domainEvent.Undefined ->
            effects(<<>>, <<fetchOf("domainEventUndefined", connectionName,
                                    objPath, FALSE)>>)
      [] eventType = domainEvent.Started ->
            effects(<<>>, <<fetchOf("getVm", connectionName, objPath, FALSE)>>)
      [] eventType = domainEvent.Suspended ->
            effects(<<[type |-> "UPDATE_VM",
                       vm |-> [connectionName |-> connectionName,
                               id |-> objPath, state |-> "paused"]]>>, <<>>)
      [] eventType = domainEvent.Resumed ->
            effects(<<[type |-> "UPDATE_VM",
                       vm |-> [connectionName |-> connectionName,
                               id |-> objPath, state |-> "running"]]>>, <<>>)
      [] eventType = domainEvent.Stopped ->
            effects(<<>>, <<fetchOf("domainUpdateOrDelete", connectionName,
                                    objPath, FALSE)>>)
      [] OTHER -> effects(<<>>, <<>>)

\* handler of the DomainEvent signal of the Connect interface
DomainEvent(connectionName, objPath, eventType) ==
    /\ subs[connectionName] > 0
    /\ nextId <= MaxTasks
    /\ LET e == domainEventHandler(connectionName, objPath, eventType)
       IN  /\ vms' = dispatchAll(vms, e.dispatched)
           /\ tasks' = startAll(tasks, nextId, e.issued, 0)
           /\ last' = mkLast("DomainEvent", connectionName, objPath, FALSE,
                             FALSE, eventType, e.dispatched, e.issued, NoBulk)
    /\ nextId' = nextId + 1
    /\ UNCHANGED <<subs, devs, poller, harness>>

\* the switch of the handler of the signals of the Domain interface
domainSignalHandler(connectionName, path, signal) ==
    IF signal \in RefreshSignals
    THEN effects(<<>>, <<fetchOf("getVm", connectionName, path, TRUE)>>)
    ELSE effects(<<>>, <<>>)

DomainSignal(connectionName, path, signal) ==
    /\ subs[connectionName] > 0
    /\ nextId <= MaxTasks
    /\ LET e == domainSignalHandler(connectionName, path, signal)
       IN  /\ tasks' = startAll(tasks, nextId, e.issued, 0)
           /\ last' = mkLast("DomainSignal", connectionName, path, FALSE,
                             FALSE, signal, e.dispatched, e.issued, NoBulk)
    /\ nextId' = nextId + 1
    /\ UNCHANGED <<vms, subs, devs, poller, harness>>

\* the ListDomains call of an event handler fails: .catch logs
ListDomainsFail(t) ==
    /\ t \in DOMAIN tasks
    /\ tasks[t].kind \in {"domainEventUndefined", "domainUpdateOrDelete"}
    /\ tasks' = Remove(tasks, t)
    /\ last' = mkLast(tasks[t].kind, tasks[t].conn, tasks[t].id, FALSE, TRUE,
                      "error", <<>>, <<>>, NoBulk)
    /\ UNCHANGED <<vms, nextId, subs, devs, poller, harness>>

\* domainEventUndefined deleting whatever the list says, as the handler of
\* the network event does
domainEventUndefinedThenDelete(objPaths, connectionName, domPath) ==
    [dispatched |-> <<[type |-> "UNDEFINE_VM",
                       connectionName |-> connectionName, id |-> domPath,
                       transientOnly |-> FALSE]>>,
     issued |-> <<>>]

\* domainEventUndefined, on the reply of ListDomains([TRANSIENT])
domainEventUndefinedThen(objPaths, connectionName, domPath) ==
    IF domPath \notin objPaths
    THEN effects(<<[type |-> "UNDEFINE_VM", connectionName |-> connectionName,
                    id |-> domPath, transientOnly |-> FALSE]>>, <<>>)
    ELSE effects(<<>>, <<fetchOf("getVm", connectionName, domPath, TRUE)>>)

\* domainUpdateOrDelete re-reading the domain whatever the list says
domainUpdateOrDeleteThenKeep(objPaths, connectionName, domPath) ==
    [dispatched |-> <<>>,
     issued |-> <<fetchOf("getVm", connectionName, domPath, TRUE)>>]

\* domainUpdateOrDelete with its test negated
domainUpdateOrDeleteThenNegated(objPaths, connectionName, domPath) ==
    IF domPath \notin objPaths
    THEN [dispatched |-> <<>>,
          issued |-> <<fetchOf("getVm", connectionName, domPath, TRUE)>>]
    ELSE [dispatched |-> <<[type |-> "UNDEFINE_VM",
                            connectionName |-> connectionName,
                            id |-> domPath, transientOnly |-> TRUE]>>,
          issued |-> <<>>]

\* domainUpdateOrDelete, on the reply of ListDomains([0])
domainUpdateOrDeleteThen(objPaths, connectionName, domPath) ==
    IF domPath \in objPaths
    THEN effects(<<>>, <<fetchOf("getVm", connectionName, domPath, TRUE)>>)
    ELSE effects(<<[type |-> "UNDEFINE_VM", connectionName |-> connectionName,
                    id |-> domPath, transientOnly |-> TRUE]>>, <<>>)

\* the reply of ListDomains reaches the handler that asked; the fetch it may
\* start takes the place of the handler's chain
ListDomainsReply(t) ==
    /\ t \in DOMAIN tasks
    /\ tasks[t].kind \in {"domainEventUndefined", "domainUpdateOrDelete"}
    /\ \E objPaths \in SUBSET Paths :
        LET e == IF tasks[t].kind = "domainEventUndefined"
                 THEN domainEventUndefinedThen(objPaths, tasks[t].conn,
                                               tasks[t].id)
                 ELSE domainUpdateOrDeleteThen(objPaths, tasks[t].conn,
                                               tasks[t].id)
        IN  /\ vms' = dispatchAll(vms, e.dispatched)
            /\ tasks' = startAll(Remove(tasks, t), t, e.issued, 0)
            /\ last' = mkLast(tasks[t].kind, tasks[t].conn, tasks[t].id,
                              FALSE, FALSE, objPaths, e.dispatched, e.issued,
                              NoBulk)
    /\ UNCHANGED <<nextId, subs, devs, poller, harness>>

(***************************************************************************)
(* Bulk refresh: getAllVms, getAllNodeDevices, getAllInterfaces            *)
(***************************************************************************)
BulkKinds == {"getAllVms", "getAllNodeDevices", "getAllInterfaces"}

\* the chain of a bulk refresh.  pending: the chains its Promise.all waits
\* for; listed: the paths of the list reply; had: the paths the store held
\* for the scope when the reply came; failed: the paths whose fetch failed
newBulk(kind, connectionName) ==
    [kind |-> kind, conn |-> connectionName, id |-> "", pc |-> "List",
     pending |-> {}, listed |-> {}, had |-> {}, failed |-> {}, parent |-> 0]

RECURSIVE seqOf(_)
seqOf(S) ==
    IF S = {} THEN <<>>
    ELSE LET x == CHOOSE y \in S : TRUE IN <<x>> \o seqOf(S \ {x})

fetchesOf(fn, connectionName, objPaths) ==
    [i \in DOMAIN objPaths |->
        fetchOf(fn, connectionName, objPaths[i], FALSE)]

\* getAllVms without the reconciliation step
getAllVmsThenKeep(connectionName, objPaths) ==
    [dispatched |-> <<>>,
     issued |-> fetchesOf("getVm", connectionName, objPaths)]

\* getAllVms deleting the domains of every scope that the list lacks
getAllVmsThenAllScopes(connectionName, objPaths) ==
    [dispatched |->
        <<[type |-> "DELETE_UNLISTED_VMS", connectionName |-> "system",
           vmNames |-> <<>>,
           vmIDs |-> {objPaths[i] : i \in DOMAIN objPaths}],
          [type |-> "DELETE_UNLISTED_VMS", connectionName |-> "session",
           vmNames |-> <<>>,
           vmIDs |-> {objPaths[i] : i \in DOMAIN objPaths}]>>,
     issued |-> fetchesOf("getVm", connectionName, objPaths)]

\* what each refresh does with the reply of its list call
getAllVmsThen(connectionName, objPaths) ==
    effects(<<[type |-> "DELETE_UNLISTED_VMS",
               connectionName |-> connectionName, vmNames |-> <<>>,
               vmIDs |-> {objPaths[i] : i \in DOMAIN objPaths}]>>,
            fetchesOf("getVm", connectionName, objPaths))

getAllNodeDevicesThen(connectionName, objPaths) ==
    effects(<<>>, fetchesOf("getNodeDevice", connectionName, objPaths))

getAllInterfacesThen(connectionName, objPaths) ==
    effects(<<>>, fetchesOf("getInterface", connectionName, objPaths))

\* whether the fetcher returns the promise of its chain; getInterface has no
\* return statement
returnsPromise(fn) == fn \in {"getVm", "getNodeDevice"}

\* the paths the store holds for a scope, in the collection a refresh is for
storePaths(kind, connectionName) ==
    LET state == CASE kind = "getAllVms" -> vms
                   [] kind = "getAllNodeDevices" -> nodeDevices
                   [] OTHER -> interfaces
    IN  {k[2] : k \in {x \in DOMAIN state : x[1] = connectionName}}

BulkStart(kind, connectionName) ==
    /\ nextId = 1
    /\ tasks' = Put(tasks, nextId, newBulk(kind, connectionName))
    /\ nextId' = nextId + 1
    /\ last' = mkLast(kind, connectionName, "", FALSE, FALSE, "", <<>>, <<>>,
                      NoBulk)
    /\ UNCHANGED <<vms, subs, devs, poller, harness>>

GetAllVms(connectionName) == BulkStart("getAllVms", connectionName)

GetAllNodeDevices(connectionName) ==
    BulkStart("getAllNodeDevices", connectionName)

GetAllInterfaces(connectionName) ==
    BulkStart("getAllInterfaces", connectionName)

\* the list call fails: .catch warns and rejects
BulkListFail(t) ==
    /\ t \in DOMAIN tasks
    /\ tasks[t].kind \in BulkKinds
    /\ tasks[t].pc = "List"
    /\ tasks' = Remove(tasks, t)
    /\ last' = mkLast(tasks[t].kind, tasks[t].conn, "", FALSE, TRUE, "error",
                      <<>>, <<>>, bulkOf(tasks[t], "rejected"))
    /\ UNCHANGED <<vms, nextId, subs, devs, poller, harness>>

\* the list reply: the per-path fetches are started, and Promise.all waits
\* for the promises they return
BulkListReply(t) ==
    /\ t \in DOMAIN tasks
    /\ tasks[t].kind \in BulkKinds
    /\ tasks[t].pc = "List"
    /\ \E listed \in SUBSET Paths :
        LET kind == tasks[t].kind
            connectionName == tasks[t].conn
            objPaths == seqOf(listed)
            e == CASE kind = "getAllVms" ->
                        getAllVmsThen(connectionName, objPaths)
                   [] kind = "getAllNodeDevices" ->
                        getAllNodeDevicesThen(connectionName, objPaths)
                   [] OTHER -> getAllInterfacesThen(connectionName, objPaths)
            awaited == {nextId + i - 1 :
                          i \in {j \in DOMAIN e.issued :
                                    returnsPromise(e.issued[j].fn)}}
            par == [tasks[t] EXCEPT !.pc = "all", !.pending = awaited,
                                    !.listed = listed,
                                    !.had = storePaths(kind, connectionName)]
            started == startAll(Remove(tasks, t), nextId, e.issued, t)
        IN  /\ vms' = dispatchAll(vms, e.dispatched)
            /\ tasks' = IF awaited = {} THEN started ELSE Put(started, t, par)
            /\ nextId' = nextId + Len(e.issued)
            /\ last' = mkLast(kind, connectionName, "", FALSE, FALSE, listed,
                              e.dispatched, e.issued,
                              IF awaited = {} THEN bulkOf(par, "fulfilled")
                              ELSE NoBulk)
    /\ UNCHANGED <<subs, devs, poller, harness>>

(***************************************************************************)
(* Usage poller                                                            *)
(***************************************************************************)
DefaultRefreshInterval == 10000

\* selectors of the store
getRefreshInterval(state) == DefaultRefreshInterval

usagePollingEnabled(state, name, connectionName) ==
    \E k \in DOMAIN state :
        /\ k[1] = connectionName
        /\ Has(state[k], "name") /\ state[k].name = name
        /\ Has(state[k], "usagePolling") /\ state[k].usagePolling

\* a delayPolling that hands the action to the helper in no case
delayPollingDefers(loop, timeoutArg) ==
    LET timeout == IF timeoutArg # 0 THEN timeoutArg
                   ELSE getRefreshInterval(vms)
    IN  [loop |-> loop, fn |-> "delayPolling", timeout |-> timeout,
         delay |-> DefaultRefreshInterval]

\* delayPolling ignoring the visibility of the console
delayPollingVisible(loop, timeoutArg) ==
    LET timeout == IF timeoutArg # 0 THEN timeoutArg
                   ELSE getRefreshInterval(vms)
    IN  [loop |-> loop, fn |-> "delayPollingHelper", timeout |-> timeout,
         delay |-> timeout]

\* the timer delayPolling arms for a loop; the timeout argument null is 0
delayPolling(loop, timeoutArg) ==
    LET timeout == IF timeoutArg # 0 THEN timeoutArg
                   ELSE getRefreshInterval(vms)
    IN  IF timeout > 0 /\ ~hidden
        THEN [loop |-> loop, fn |-> "delayPollingHelper",
              timeout |-> timeout, delay |-> timeout]
        ELSE [loop |-> loop, fn |-> "delayPolling", timeout |-> timeout,
              delay |-> DefaultRefreshInterval]

\* result of a handler body: the key whose read threw a TypeError ("" when
\* none did) and the value
returned(value) == [threw |-> "", value |-> value]

thrown(key) == [threw |-> key, value |-> undefined]

blockKey(i, field) == "block." \o numToString(i) \o "." \o field

vcpuKey(i) == "vcpu." \o numToString(i) \o ".time"

\* a statistic of a disk as a string, "0" when the reply lacks it
diskStatZero(info, i, field) ==
    IF Has(info, blockKey(i, field))
    THEN numToString(info[blockKey(i, field)]) ELSE "0"

\* a statistic of a disk as a string, NaN when the reply lacks it
diskStat(info, i, field) ==
    IF Has(info, blockKey(i, field))
    THEN numToString(info[blockKey(i, field)]) ELSE NaN

RECURSIVE diskLoop(_, _, _, _)
diskLoop(info, i, count, disksStats) ==
    IF i >= count THEN returned(disksStats)
    ELSE IF ~Has(info, blockKey(i, "name")) THEN thrown(blockKey(i, "name"))
    ELSE LET target == info[blockKey(i, "name")]
         IN  IF target # ""
             THEN diskLoop(info, i + 1, count,
                           Put(disksStats, target,
                               [physical |-> diskStat(info, i, "physical"),
                                capacity |-> diskStat(info, i, "capacity"),
                                allocation |-> diskStat(info, i, "allocation")]))
             ELSE diskLoop(info, i + 1, count, disksStats)

calculateDiskStats(info) ==
    IF ~Has(info, "block.count") THEN returned(undefined)
    ELSE IF info["block.count"] = 0 THEN returned(undefined)
    ELSE diskLoop(info, 0, info["block.count"], EmptyObj)

\* the sum of the times of the vCPUs that report one, whatever maximum is
RECURSIVE vcpuTimesAll(_, _, _)
vcpuTimesAll(info, i, maximum) ==
    IF ~Has(info, vcpuKey(i)) /\ i >= maximum THEN 0
    ELSE (IF Has(info, vcpuKey(i)) THEN info[vcpuKey(i)] ELSE 0)
         + vcpuTimesAll(info, i + 1, maximum)

\* the sum of the times of the vCPUs below maximum that report one
RECURSIVE vcpuTimes(_, _, _)
vcpuTimes(info, i, maximum) ==
    IF i >= maximum THEN 0
    ELSE (IF Has(info, vcpuKey(i)) THEN info[vcpuKey(i)] ELSE 0)
         + vcpuTimes(info, i + 1, maximum)

\* the sample carrying the flag of the loop that took it
rssPropsFlagged(props, info) ==
    Assign(props, [usagePolling |-> TRUE])

rssProps(props, info) ==
    IF Has(info, "balloon.rss")
    THEN Assign(props, [rssMemory |-> info["balloon.rss"]])
    ELSE IF Has(info, "state.state")
            /\ info["state.state"] = VIR_DOMAIN_SHUTOFF
    THEN Assign(props, [rssMemory |-> 0])
    ELSE props

\* the sample is taken whatever the number of vCPUs
cpuPropsUnguarded(props, info, avgvCpuTime, now) ==
    Assign(props, [actualTimeInMs |-> now, cpuTime |-> avgvCpuTime])

cpuProps(props, info, avgvCpuTime, now) ==
    IF info["vcpu.current"] > 0
    THEN Assign(props, [actualTimeInMs |-> now, cpuTime |-> avgvCpuTime])
    ELSE props

\* a sample dispatched with the store operation that adds a record
usageSampleUpsert(props) == [type |-> "UPDATE_ADD_VM", vm |-> props]

\* store.dispatch(updateVm(props)) of the handler of the GetStats reply
usageSample(props) == [type |-> "UPDATE_VM", vm |-> props]

\* the handler of the GetStats reply: the store actions it dispatches
doUsagePollingThen(name, connectionName, objPath, info, now) ==
    IF DOMAIN info = {} THEN returned(<<>>)
    ELSE IF ~Has(info, "vcpu.maximum") THEN thrown("vcpu.maximum")
    ELSE IF ~Has(info, "vcpu.current") THEN thrown("vcpu.current")
    ELSE LET props == rssProps([name |-> name,
                                connectionName |-> connectionName,
                                id |-> objPath], info)
             avgvCpuTime == jsDiv(vcpuTimes(info, 0, info["vcpu.maximum"]),
                                  info["vcpu.current"])
             sampled == cpuProps(props, info, avgvCpuTime, now)
             disks == calculateDiskStats(info)
         IN  IF disks.threw # "" THEN thrown(disks.threw)
             ELSE returned(<<usageSample(Assign(sampled,
                                         [disksStats |-> disks.value]))>>)

newPoll(name, connectionName, objPath) ==
    [kind |-> "doUsagePolling", conn |-> connectionName, id |-> objPath,
     name |-> name, updateOnly |-> FALSE, pc |-> "GetStats", parent |-> 0]

\* doUsagePolling without the test of the flag
doUsagePollingAlways(ts, state, loop, name, connectionName, objPath) ==
    Put(ts, loop, newPoll(name, connectionName, objPath))

\* doUsagePolling up to its call: the loop goes on only while the flag is set
doUsagePolling(ts, state, loop, name, connectionName, objPath) ==
    IF usagePollingEnabled(state, name, connectionName)
    THEN Put(ts, loop, newPoll(name, connectionName, objPath))
    ELSE ts

usageFlag(connectionName, name, flag) ==
    [type |-> "UPDATE_VM",
     vm |-> [connectionName |-> connectionName, name |-> name,
             usagePolling |-> flag]]

UsageStartPolling(name, connectionName, objPath) ==
    /\ nextId <= MaxTasks
    /\ LET action == usageFlag(connectionName, name, TRUE)
           state == vmsReducer(vms, action)
       IN  /\ vms' = state
           /\ tasks' = doUsagePolling(tasks, state, nextId, name,
                                      connectionName, objPath)
           /\ last' = mkLast("usageStartPolling", connectionName, objPath,
                             FALSE, FALSE, "", <<action>>, <<>>, NoBulk)
    /\ nextId' = nextId + 1
    /\ UNCHANGED <<subs, devs, poller, harness>>

UsageStopPolling(name, connectionName) ==
    /\ LET action == usageFlag(connectionName, name, FALSE)
       IN  /\ vms' = vmsReducer(vms, action)
           /\ last' = mkLast("usageStopPolling", connectionName, "", FALSE,
                             FALSE, "", <<action>>, <<>>, NoBulk)
    /\ UNCHANGED <<tasks, nextId, subs, devs, poller, harness>>

\* statistics replies: the memory and state parts in every combination, the
\* vCPU part and the disk part each in its variants
Times == {2, 3}

RssParts == {EmptyObj, [k \in {"balloon.rss"} |-> 5]}

StateParts ==
    {EmptyObj, [k \in {"state.state"} |-> 1],
     [k \in {"state.state"} |-> VIR_DOMAIN_SHUTOFF]}

vcpuPart(maximum, current, times) ==
    Assign([k \in {"vcpu.maximum"} |-> maximum],
           Assign(IF current < 0 THEN EmptyObj
                  ELSE [k \in {"vcpu.current"} |-> current],
                  [k \in {vcpuKey(i) : i \in times} |-> 4]))

VcpuFull == vcpuPart(2, 2, {0, 1})

VcpuParts ==
    {EmptyObj, vcpuPart(2, -1, {0}), vcpuPart(2, 0, {}), vcpuPart(2, 0, {0}),
     vcpuPart(2, 1, {0}), vcpuPart(2, 2, {1}), vcpuPart(1, 1, {0, 1}),
     VcpuFull}

blockPart(count, name, fields) ==
    Assign([k \in {"block.count"} |-> count],
           Assign(IF name = "none" THEN EmptyObj
                  ELSE [k \in {blockKey(0, "name")} |-> name],
                  [k \in {blockKey(0, f) : f \in fields} |-> 2]))

BlockParts ==
    {EmptyObj, blockPart(0, "none", {}),
     blockPart(1, "vda", {"physical", "capacity", "allocation"}),
     blockPart(1, "vda", {"capacity"}), blockPart(1, "", {"physical"}),
     blockPart(1, "none", {"physical"})}

StatsReplies ==
    {EmptyObj}
    \cup {Assign(Assign(r, st), VcpuFull) : r \in RssParts, st \in StateParts}
    \cup {Assign([k \in {"balloon.rss"} |-> 5], v) : v \in VcpuParts}
    \cup {Assign(VcpuFull, b) : b \in BlockParts}
    \cup {Assign(vcpuPart(2, 0, {0}), b) : b \in BlockParts}

\* the timer of a loop with the arguments its polling action was bound to
armed(timer, task) ==
    Assign(timer, [name |-> task.name, conn |-> task.conn, id |-> task.id])

\* the next cycle armed in the handler of the reply only
pollSettledThen(loop, task, caught) ==
    IF caught THEN {} ELSE {armed(delayPolling(loop, 0), task)}

\* .finally of doUsagePolling: the timers armed when the call has settled;
\* caught tells that .catch ran before
pollSettled(loop, task, caught) == {armed(delayPolling(loop, 0), task)}

pollLast(task, failed, reply, threw, dispatched) ==
    Assign(mkLast("doUsagePolling.GetStats", task.conn, task.id, FALSE,
                  failed, reply, dispatched, <<>>, NoBulk),
           [threw |-> threw, name |-> task.name])

\* the GetStats call fails: .catch warns, .finally arms the next cycle
GetStatsFail(t) ==
    /\ t \in DOMAIN tasks
    /\ tasks[t].kind = "doUsagePolling"
    /\ tasks' = Remove(tasks, t)
    /\ timers' = timers \cup pollSettled(t, tasks[t], TRUE)
    /\ last' = pollLast(tasks[t], TRUE, EmptyObj, "", <<>>)
    /\ UNCHANGED <<vms, nextId, subs, devs, hidden, libvirtState, harness>>

\* the GetStats reply: the sample is merged, or a TypeError of the handler is
\* caught by .catch; .finally arms the next cycle
GetStatsReply(t) ==
    /\ t \in DOMAIN tasks
    /\ tasks[t].kind = "doUsagePolling"
    /\ \E info \in StatsReplies, now \in Times :
        LET r == doUsagePollingThen(tasks[t].name, tasks[t].conn, tasks[t].id,
                                    info, now)
            dispatched == IF r.threw = "" THEN r.value ELSE <<>>
        IN  /\ vms' = dispatchAll(vms, dispatched)
            /\ last' = pollLast(tasks[t], FALSE, info, r.threw, dispatched)
            /\ timers' = timers \cup pollSettled(t, tasks[t], r.threw # "")
    /\ tasks' = Remove(tasks, t)
    /\ UNCHANGED <<nextId, subs, devs, hidden, libvirtState, harness>>

\* the helper running the action whatever the state of the service
delayPollingHelperNow(state) == TRUE

\* the test of the callback of delayPollingHelper: whether the action runs
delayPollingHelper(state) == state = "running"

timerLast(timer, executed) ==
    Assign(mkLast(timer.fn, timer.conn, timer.id, FALSE, FALSE, "", <<>>,
                  <<>>, NoBulk),
           [loop |-> timer.loop, executed |-> executed, name |-> timer.name])

\* the callback of the timer delayPolling armed for the hidden console (or
\* for a refresh interval of 0): delayPolling again
DelayPollingTick(timer) ==
    /\ timer \in timers
    /\ timer.fn = "delayPolling"
    /\ timers' = (timers \ {timer})
                    \cup {armed(delayPolling(timer.loop, timer.timeout),
                                [name |-> timer.name, conn |-> timer.conn,
                                 id |-> timer.id])}
    /\ last' = timerLast(timer, FALSE)
    /\ UNCHANGED <<vms, tasks, nextId, subs, devs, hidden, libvirtState,
                   harness>>

\* the callback of the timer of delayPollingHelper: the same timer again
\* while the service is not running, the polling action otherwise
DelayPollingHelperTick(timer) ==
    /\ timer \in timers
    /\ timer.fn = "delayPollingHelper"
    /\ IF delayPollingHelper(libvirtState)
       THEN /\ timers' = timers \ {timer}
            /\ tasks' = doUsagePolling(tasks, vms, timer.loop, timer.name,
                                       timer.conn, timer.id)
            /\ last' = timerLast(timer, TRUE)
       ELSE /\ timers' = (timers \ {timer})
                            \cup {[timer EXCEPT !.delay = timer.timeout]}
            /\ tasks' = tasks
            /\ last' = timerLast(timer, FALSE)
    /\ UNCHANGED <<vms, nextId, subs, devs, hidden, libvirtState, harness>>

\* the console is hidden or shown
VisibilityChange ==
    /\ hidden' = ~hidden
    /\ last' = mkLast("visibilitychange", "", "", FALSE, FALSE, "", <<>>, <<>>,
                      NoBulk)
    /\ UNCHANGED <<vms, tasks, nextId, subs, devs, timers, libvirtState,
                   harness>>

\* the store learns a new state of the libvirt service
ServiceStates == {"running", "stopped"}

ServiceStateChange(state) ==
    /\ state # libvirtState
    /\ libvirtState' = state
    /\ last' = mkLast("libvirtState", "", "", FALSE, FALSE, state, <<>>, <<>>,
                      NoBulk)
    /\ UNCHANGED <<vms, tasks, nextId, subs, devs, timers, hidden, harness>>

\* getVm is called for a domain
GetVmCall(connectionName, objPath, updateOnly) ==
    /\ nextId <= MaxTasks
    /\ tasks' = Put(tasks, nextId,
                    newGetVm(connectionName, objPath, updateOnly, 0))
    /\ nextId' = nextId + 1
    /\ last' = mkLast("getVm", connectionName, objPath, updateOnly, FALSE, "",
                      <<>>, <<>>, NoBulk)
    /\ UNCHANGED <<vms, subs, devs, poller, harness>>

(***************************************************************************)
(* Specification of the event monitor and the fetches it starts            *)
(***************************************************************************)
Init ==
    /\ vms = EmptyObj
    /\ tasks = EmptyObj
    /\ nextId = 1
    /\ subs = [c \in ConnNames |-> 0]
    /\ interfaces = EmptyObj
    /\ nodeDevices = EmptyObj
    /\ networks = EmptyObj
    /\ storagePools = EmptyObj
    /\ timers = {}
    /\ hidden = FALSE
    /\ libvirtState = "running"
    /\ remote = EmptyObj
    /\ seen = EmptyObj
    /\ dialog = CreateVmModal
    /\ calls = 0
    /\ last = mkLast("init", "", "", FALSE, FALSE, "", <<>>, <<>>, NoBulk)

Next ==
    \/ \E c \in ConnNames : StartEventMonitor(c)
    \/ \E c \in Scopes, p \in Paths, e \in EventTypes : DomainEvent(c, p, e)
    \/ \E c \in Scopes, p \in Paths, s \in DomainSignals : DomainSignal(c, p, s)
    \/ \E t \in DOMAIN tasks : ListDomainsFail(t)
    \/ \E t \in DOMAIN tasks : ListDomainsReply(t)
    \/ \E t \in DOMAIN tasks : GetVmFail(t)
    \/ \E t \in DOMAIN tasks : GetVmXMLDesc(t)
    \/ \E t \in DOMAIN tasks : GetVmXMLDescInactive(t)
    \/ \E t \in DOMAIN tasks : GetVmGetState(t)
    \/ \E t \in DOMAIN tasks : GetVmGetAll(t)

Spec == Init /\ [][Next]_vars

(***************************************************************************)
(* Specification of one bulk refresh, on a store that holds records of     *)
(* earlier fetches                                                         *)
(***************************************************************************)
OldVm(k) ==
    [connectionName |-> k[1], id |-> k[2], name |-> NameOf(k[2]),
     state |-> "running", persistent |-> TRUE, autostart |-> FALSE,
     inactiveXML |-> parseDumpxml(k[1], "xmlA", k[2]), config |-> "xmlB",
     ui |-> resolveUiState(NameOf(k[2]), k[1]),
     actualTimeInMs |-> 1, cpuTime |-> jsNum(3), rssMemory |-> 7,
     disksStats |-> [vda |-> [physical |-> "1", capacity |-> "2",
                              allocation |-> "1"]]]

OldInterface(k) ==
    [connectionName |-> k[1], id |-> k[2], name |-> IfaceNameOf(k[2]),
     mac |-> "52:54:00:00:00:09", active |-> FALSE, config |-> "xmlB"]

OldNodeDevice(k) ==
    [connectionName |-> k[1], name |-> k[2], path |-> "",
     capability |-> [type |-> "net"]]

PriorKeys == {<<"system", "/p1">>, <<"system", "/p2">>, <<"session", "/p1">>}

InitBulk ==
    /\ \E K \in SUBSET PriorKeys, kind \in BulkKinds :
        /\ vms = IF kind = "getAllVms"
                 THEN [k \in K |-> OldVm(k)] ELSE EmptyObj
        /\ interfaces = IF kind = "getAllInterfaces"
                        THEN [k \in K |-> OldInterface(k)] ELSE EmptyObj
        /\ nodeDevices = IF kind = "getAllNodeDevices"
                         THEN [k \in K |-> OldNodeDevice(k)] ELSE EmptyObj
    /\ networks = EmptyObj
    /\ storagePools = EmptyObj
    /\ tasks = EmptyObj
    /\ nextId = 1
    /\ subs = [c \in ConnNames |-> 0]
    /\ timers = {}
    /\ hidden = FALSE
    /\ libvirtState = "running"
    /\ remote = EmptyObj
    /\ seen = EmptyObj
    /\ dialog = CreateVmModal
    /\ calls = 0
    /\ last = mkLast("init", "", "", FALSE, FALSE, "", <<>>, <<>>, NoBulk)

NextBulk ==
    \/ \E c \in Scopes : GetAllVms(c)
    \/ \E c \in Scopes : GetAllNodeDevices(c)
    \/ \E c \in Scopes : GetAllInterfaces(c)
    \/ \E t \in DOMAIN tasks : BulkListFail(t)
    \/ \E t \in DOMAIN tasks : BulkListReply(t)
    \/ \E t \in DOMAIN tasks : GetVmFail(t)
    \/ \E t \in DOMAIN tasks : GetVmXMLDesc(t)
    \/ \E t \in DOMAIN tasks : GetVmXMLDescInactive(t)
    \/ \E t \in DOMAIN tasks : GetVmGetState(t)
    \/ \E t \in DOMAIN tasks : GetVmGetAll(t)
    \/ \E t \in DOMAIN tasks : GetNodeDeviceFail(t)
    \/ \E t \in DOMAIN tasks : GetNodeDeviceXMLDesc(t)
    \/ \E t \in DOMAIN tasks : GetNodeDeviceUdevadm(t)
    \/ \E t \in DOMAIN tasks : GetInterfaceFail(t)
    \/ \E t \in DOMAIN tasks : GetInterfaceGetAll(t)
    \/ \E t \in DOMAIN tasks : GetInterfaceXMLDesc(t)

SpecBulk == InitBulk /\ [][NextBulk]_vars

(***************************************************************************)
(* Specification of the usage sample of one domain: its fetches and the    *)
(* first cycle of its polling loops                                        *)
(***************************************************************************)
TheVm == <<"system", "/p1">>

InitUsage ==
    /\ vms \in {EmptyObj, [k \in {TheVm} |-> OldVm(k)]}
    /\ interfaces = EmptyObj
    /\ nodeDevices = EmptyObj
    /\ networks = EmptyObj
    /\ storagePools = EmptyObj
    /\ tasks = EmptyObj
    /\ nextId = 1
    /\ subs = [c \in ConnNames |-> 0]
    /\ timers = {}
    /\ hidden \in BOOLEAN
    /\ libvirtState = "running"
    /\ remote = EmptyObj
    /\ seen = EmptyObj
    /\ dialog = CreateVmModal
    /\ calls = 0
    /\ last = mkLast("init", "", "", FALSE, FALSE, "", <<>>, <<>>, NoBulk)

NextUsage ==
    \/ UsageStartPolling(NameOf(TheVm[2]), TheVm[1], TheVm[2])
    \/ UsageStopPolling(NameOf(TheVm[2]), TheVm[1])
    \/ \E t \in DOMAIN tasks : GetStatsFail(t)
    \/ \E t \in DOMAIN tasks : GetStatsReply(t)
    \/ \E updateOnly \in BOOLEAN : GetVmCall(TheVm[1], TheVm[2], updateOnly)
    \/ \E t \in DOMAIN tasks : GetVmFail(t)
    \/ \E t \in DOMAIN tasks : GetVmXMLDesc(t)
    \/ \E t \in DOMAIN tasks : GetVmXMLDescInactive(t)
    \/ \E t \in DOMAIN tasks : GetVmGetState(t)
    \/ \E t \in DOMAIN tasks : GetVmGetAll(t)

SpecUsage == InitUsage /\ [][NextUsage]_vars

(***************************************************************************)
(* Specification of the polling loops of one domain                        *)
(***************************************************************************)
InitPoll ==
    /\ vms = [k \in {TheVm} |-> OldVm(k)]
    /\ interfaces = EmptyObj
    /\ nodeDevices = EmptyObj
    /\ networks = EmptyObj
    /\ storagePools = EmptyObj
    /\ tasks = EmptyObj
    /\ nextId = 1
    /\ subs = [c \in ConnNames |-> 0]
    /\ timers = {}
    /\ hidden \in BOOLEAN
    /\ libvirtState \in ServiceStates
    /\ remote = EmptyObj
    /\ seen = EmptyObj
    /\ dialog = CreateVmModal
    /\ calls = 0
    /\ last = mkLast("init", "", "", FALSE, FALSE, "", <<>>, <<>>, NoBulk)

NextPoll ==
    \/ UsageStartPolling(NameOf(TheVm[2]), TheVm[1], TheVm[2])
    \/ UsageStopPolling(NameOf(TheVm[2]), TheVm[1])
    \/ \E t \in DOMAIN tasks : GetStatsFail(t)
    \/ \E t \in DOMAIN tasks : GetStatsReply(t)
    \/ \E timer \in timers : DelayPollingTick(timer)
    \/ \E timer \in timers : DelayPollingHelperTick(timer)
    \/ VisibilityChange
    \/ \E state \in ServiceStates : ServiceStateChange(state)

SpecPoll == InitPoll /\ [][NextPoll]_vars

\* the polling loops with the timers firing and the GetStats calls settling
\* (the call has a timeout): a pending callback of loop l runs, a call of
\* loop l in flight is answered or fails; the replies are the empty one and
\* those with every statistic of a disk
NextPollFair ==
    \/ UsageStartPolling(NameOf(TheVm[2]), TheVm[1], TheVm[2])
    \/ UsageStopPolling(NameOf(TheVm[2]), TheVm[1])
    \/ \E t \in DOMAIN tasks : GetStatsFail(t)
    \/ \E t \in DOMAIN tasks :
          /\ GetStatsReply(t)
          /\ DOMAIN last'.reply = {} \/ Has(last'.reply, "block.0.allocation")
    \/ \E timer \in timers : DelayPollingTick(timer)
    \/ \E timer \in timers : DelayPollingHelperTick(timer)
    \/ VisibilityChange
    \/ \E state \in ServiceStates : ServiceStateChange(state)

TimerTick(l) ==
    \E timer \in timers :
        /\ timer.loop = l
        /\ DelayPollingTick(timer) \/ DelayPollingHelperTick(timer)

CallSettles(l) ==
    \/ GetStatsFail(l)
    \/ /\ GetStatsReply(l)
       /\ DOMAIN last'.reply = {} \/ Has(last'.reply, "block.0.allocation")

SpecPollFair ==
    /\ InitPoll
    /\ [][NextPollFair]_vars
    /\ \A l \in 1..MaxTasks : WF_vars(TimerTick(l)) /\ WF_vars(CallSettles(l))

(***************************************************************************)
(* Specification of the polling loop of one domain beside the event        *)
(* monitor, whose handlers may remove the domain's record while a GetStats *)
(* call is in flight                                                       *)
(***************************************************************************)
NextGone ==
    \/ StartEventMonitor(TheVm[1])
    \/ UsageStartPolling(NameOf(TheVm[2]), TheVm[1], TheVm[2])
    \/ \E t \in DOMAIN tasks : GetStatsFail(t)
    \/ \E t \in DOMAIN tasks : GetStatsReply(t)
    \/ \E timer \in timers : DelayPollingTick(timer)
    \/ \E timer \in timers : DelayPollingHelperTick(timer)
    \/ \E e \in EventTypes : DomainEvent(TheVm[1], TheVm[2], e)
    \/ \E t \in DOMAIN tasks : ListDomainsFail(t)
    \/ \E t \in DOMAIN tasks : ListDomainsReply(t)
    \/ \E t \in DOMAIN tasks : GetVmFail(t)
    \/ \E t \in DOMAIN tasks : GetVmXMLDesc(t)
    \/ \E t \in DOMAIN tasks : GetVmXMLDescInactive(t)
    \/ \E t \in DOMAIN tasks : GetVmGetState(t)
    \/ \E t \in DOMAIN tasks : GetVmGetAll(t)

SpecGone == InitPoll /\ [][NextGone]_vars

(***************************************************************************)
(* Specification of two fetches of one domain in immediate succession,     *)
(* the remote domain staying as it is and answering every call             *)
(***************************************************************************)
\* the record the store holds for a domain, or that it holds none
snapshot(key) ==
    IF key \in DOMAIN vms THEN [present |-> TRUE, vm |-> vms[key]]
    ELSE [present |-> FALSE]

InitIdem ==
    /\ vms \in {EmptyObj, [k \in {TheVm} |-> OldVm(k)]}
    /\ interfaces = EmptyObj
    /\ nodeDevices = EmptyObj
    /\ networks = EmptyObj
    /\ storagePools = EmptyObj
    /\ tasks = EmptyObj
    /\ nextId = 1
    /\ subs = [c \in ConnNames |-> 0]
    /\ timers = {}
    /\ hidden = FALSE
    /\ libvirtState = "running"
    /\ remote \in [domXml : XmlDocs, domInactiveXml : InactiveXmlDocs,
                   state : StateReplies, returnProps : PropBags(TheVm[2])]
    /\ seen = EmptyObj
    /\ dialog = CreateVmModal
    /\ calls = 0
    /\ last = mkLast("init", "", "", FALSE, FALSE, "", <<>>, <<>>, NoBulk)

\* the first run
GetVmFirst(updateOnly) ==
    /\ nextId = 1
    /\ GetVmCall(TheVm[1], TheVm[2], updateOnly)

\* the second run, started when the first has completed; seen keeps the
\* record the first run left
GetVmAgain ==
    /\ nextId = 2
    /\ tasks = EmptyObj
    /\ tasks' = Put(tasks, nextId,
                    newGetVm(TheVm[1], TheVm[2], last.updateOnly, 0))
    /\ nextId' = nextId + 1
    /\ seen' = snapshot(TheVm)
    /\ last' = mkLast("getVm", TheVm[1], TheVm[2], last.updateOnly, FALSE, "",
                      <<>>, <<>>, NoBulk)
    /\ UNCHANGED <<vms, subs, devs, poller, remote, dialog, calls>>

NextIdem ==
    \/ \E updateOnly \in BOOLEAN : GetVmFirst(updateOnly)
    \/ GetVmAgain
    \/ \E t \in DOMAIN tasks :
          GetVmXMLDesc(t) /\ last'.reply = remote.domXml
    \/ \E t \in DOMAIN tasks :
          GetVmXMLDescInactive(t) /\ last'.reply = remote.domInactiveXml
    \/ \E t \in DOMAIN tasks :
          GetVmGetState(t) /\ last'.reply = remote.state
    \/ \E t \in DOMAIN tasks :
          GetVmGetAll(t) /\ last'.reply = remote.returnProps

SpecIdem == InitIdem /\ [][NextIdem]_vars

(***************************************************************************)
(* Specification of two fetches of one domain issued one after the other,  *)
(* the remote domain changing between their reads and answering every call *)
(***************************************************************************)
\* remote: the replies of GetState the first and the second fetch get
InitRace ==
    /\ vms \in {EmptyObj, [k \in {TheVm} |-> OldVm(k)]}
    /\ interfaces = EmptyObj
    /\ nodeDevices = EmptyObj
    /\ networks = EmptyObj
    /\ storagePools = EmptyObj
    /\ tasks = EmptyObj
    /\ nextId = 1
    /\ subs = [c \in ConnNames |-> 0]
    /\ timers = {}
    /\ hidden = FALSE
    /\ libvirtState = "running"
    /\ remote \in [1..MaxTasks -> StateReplies]
    /\ seen = EmptyObj
    /\ dialog = CreateVmModal
    /\ calls = 0
    /\ last = mkLast("init", "", "", FALSE, FALSE, "", <<>>, <<>>, NoBulk)

NextRace ==
    \/ GetVmCall(TheVm[1], TheVm[2], FALSE)
    \/ \E t \in DOMAIN tasks : GetVmXMLDesc(t)
    \/ \E t \in DOMAIN tasks : GetVmXMLDescInactive(t)
    \/ \E t \in DOMAIN tasks : GetVmGetState(t) /\ last'.reply = remote[t]
    \/ \E t \in DOMAIN tasks : GetVmGetAll(t)

SpecRace == InitRace /\ [][NextRace]_vars

(***************************************************************************)
(* The store: network records and storage pool records, keyed by           *)
(* <<connection scope, object path>>                                       *)
(***************************************************************************)
\* updateOrAddNetwork and updateOrAddStoragePool: an update-only action is
\* merged into the record the store has and adds none
updateOrAddEntity(state, entity, updateOnly) ==
    LET k == <<entity.connectionName, entity.id>>
    IN  IF k \in DOMAIN state THEN Put(state, k, Assign(state[k], entity))
        ELSE IF updateOnly THEN state
        ELSE Put(state, k, entity)

undefineEntity(state, connectionName, id) ==
    [k \in DOMAIN state \ {<<connectionName, id>>} |-> state[k]]

networksReducer(state, action) ==
    CASE action.type = "UPDATE_ADD_NETWORK" ->
            updateOrAddEntity(state, action.network, action.updateOnly)
      [] action.type = "UNDEFINE_NETWORK" ->
            undefineEntity(state, action.connectionName, action.id)
      [] OTHER -> state

storagePoolsReducer(state, action) ==
    CASE action.type = "UPDATE_ADD_STORAGE_POOL" ->
            updateOrAddEntity(state, action.storagePool, action.updateOnly)
      [] action.type = "UNDEFINE_STORAGE_POOL" ->
            undefineEntity(state, action.connectionName, action.id)
      [] OTHER -> state

RECURSIVE dispatchPools(_, _)
dispatchPools(state, actions) ==
    IF actions = <<>> THEN state
    ELSE dispatchPools(
             [networks |-> networksReducer(state.networks, Head(actions)),
              storagePools |-> storagePoolsReducer(state.storagePools,
                                                   Head(actions))],
             Tail(actions))

(***************************************************************************)
(* Event monitor of networks and storage pools                             *)
(***************************************************************************)
networkEvent == [Defined |-> 0, Undefined |-> 1, Started |-> 2, Stopped |-> 3]

storagePoolEvent ==
    [Defined |-> 0, Undefined |-> 1, Started |-> 2, Stopped |-> 3,
     Created |-> 4, Deleted |-> 5]

NetworkEventTypes == 0..3
StoragePoolEventTypes == 0..5

\* signals of the Network and StoragePool interfaces; another stands for
\* every signal the handlers have no case for
EntitySignals == {"Refresh", "Other"}

\* the switch of the NetworkEvent handler
networkEventHandler(connectionName, objPath, eventType) ==
    CASE eventType \in {networkEvent.Defined, networkEvent.Started} ->
            effects(<<>>, <<fetchOf("networkGet", connectionName, objPath,
                                    FALSE)>>)
      [] eventType = networkEvent.Stopped ->
            effects(<<>>, <<fetchOf("networkUpdateOrDelete", connectionName,
                                    objPath, FALSE)>>)
      [] eventType = networkEvent.Undefined ->
            effects(<<[type |-> "UNDEFINE_NETWORK",
                       connectionName |-> connectionName, id |-> objPath]>>,
                    <<>>)
      [] OTHER -> effects(<<>>, <<>>)

\* the handler of the signals of the Network interface re-reading
\* update-only, as the handler of the signals of the Domain interface does
networkSignalHandlerUpdateOnly(connectionName, path, signal) ==
    IF signal = "Refresh"
    THEN [dispatched |-> <<>>,
          issued |-> <<fetchOf("networkGet", connectionName, path, TRUE)>>]
    ELSE [dispatched |-> <<>>, issued |-> <<>>]

\* the switch of the handler of the signals of the Network interface
networkSignalHandler(connectionName, path, signal) ==
    IF signal = "Refresh"
    THEN effects(<<>>, <<fetchOf("networkGet", connectionName, path, FALSE)>>)
    ELSE effects(<<>>, <<>>)

\* the StoragePoolEvent handler re-reading the pool after every event, and
\* never update-only
storagePoolEventHandlerUpsert(connectionName, objPath, eventType) ==
    [dispatched |-> <<>>,
     issued |-> <<fetchOf("storagePoolGet", connectionName, objPath, FALSE)>>]

\* the switch of the StoragePoolEvent handler
storagePoolEventHandler(connectionName, objPath, eventType) ==
    CASE eventType \in {storagePoolEvent.Defined, storagePoolEvent.Created} ->
            effects(<<>>, <<fetchOf("storagePoolGet", connectionName, objPath,
                                    FALSE)>>)
      [] eventType = storagePoolEvent.Stopped ->
            effects(<<>>, <<fetchOf("storagePoolUpdateOrDelete",
                                    connectionName, objPath, FALSE)>>)
      [] eventType = storagePoolEvent.Started ->
            effects(<<>>, <<fetchOf("storagePoolGet", connectionName, objPath,
                                    TRUE)>>)
      [] eventType = storagePoolEvent.Undefined ->
            effects(<<[type |-> "UNDEFINE_STORAGE_POOL",
                       connectionName |-> connectionName, id |-> objPath]>>,
                    <<>>)
      [] OTHER -> effects(<<>>, <<>>)

\* the switch of the handler of the signals of the StoragePool interface
storagePoolSignalHandler(connectionName, path, signal) ==
    IF signal = "Refresh"
    THEN effects(<<>>, <<fetchOf("storagePoolGet", connectionName, path,
                                 FALSE)>>)
    ELSE effects(<<>>, <<>>)

\* what a handler of the monitor did; existed: whether the store held a
\* record of the entity when it started
entityLast(op, connectionName, id, updateOnly, failed, reply, e, store) ==
    Assign(mkLast(op, connectionName, id, updateOnly, failed, reply,
                  e.dispatched, e.issued, NoBulk),
           [existed |-> <<connectionName, id>> \in DOMAIN store])

\* a handler of the monitor runs: its store actions are dispatched and its
\* chains started
Handled(op, connectionName, id, reply, e, store) ==
    /\ subs[connectionName] > 0
    /\ nextId <= MaxTasks
    /\ LET after == dispatchPools([networks |-> networks,
                                   storagePools |-> storagePools],
                                  e.dispatched)
       IN  /\ networks' = after.networks
           /\ storagePools' = after.storagePools
    /\ tasks' = startAll(tasks, nextId, e.issued, 0)
    /\ last' = entityLast(op, connectionName, id, FALSE, FALSE, reply, e,
                          store)
    /\ nextId' = nextId + 1
    /\ UNCHANGED <<vms, interfaces, nodeDevices, subs, poller, harness>>

NetworkEvent(connectionName, objPath, eventType) ==
    Handled("NetworkEvent", connectionName, objPath, eventType,
            networkEventHandler(connectionName, objPath, eventType), networks)

NetworkSignal(connectionName, path, signal) ==
    Handled("NetworkSignal", connectionName, path, signal,
            networkSignalHandler(connectionName, path, signal), networks)

StoragePoolEvent(connectionName, objPath, eventType) ==
    Handled("StoragePoolEvent", connectionName, objPath, eventType,
            storagePoolEventHandler(connectionName, objPath, eventType),
            storagePools)

StoragePoolSignal(connectionName, path, signal) ==
    Handled("StoragePoolSignal", connectionName, path, signal,
            storagePoolSignalHandler(connectionName, path, signal),
            storagePools)

storeOf(kind) ==
    IF kind \in {"networkGet", "networkUpdateOrDelete"} THEN networks
    ELSE storagePools

\* the handlers deleting the record whatever the list says
entityUpdateOrDeleteThenDelete(kind, objPaths, connectionName, path) ==
    [dispatched |-> <<[type |-> IF kind = "networkUpdateOrDelete"
                                THEN "UNDEFINE_NETWORK"
                                ELSE "UNDEFINE_STORAGE_POOL",
                       connectionName |-> connectionName, id |-> path]>>,
     issued |-> <<>>]

\* networkUpdateOrDelete and storagePoolUpdateOrDelete, on the reply of
\* their list call
entityUpdateOrDeleteThen(kind, objPaths, connectionName, path) ==
    IF path \in objPaths
    THEN effects(<<>>, <<fetchOf(IF kind = "networkUpdateOrDelete"
                                 THEN "networkGet" ELSE "storagePoolGet",
                                 connectionName, path, TRUE)>>)
    ELSE effects(<<[type |-> IF kind = "networkUpdateOrDelete"
                             THEN "UNDEFINE_NETWORK"
                             ELSE "UNDEFINE_STORAGE_POOL",
                    connectionName |-> connectionName, id |-> path]>>, <<>>)

\* the list call of networkUpdateOrDelete or storagePoolUpdateOrDelete
\* fails: .catch logs
ListEntitiesFail(t) ==
    /\ t \in DOMAIN tasks
    /\ tasks[t].kind \in {"networkUpdateOrDelete", "storagePoolUpdateOrDelete"}
    /\ tasks' = Remove(tasks, t)
    /\ last' = entityLast(tasks[t].kind, tasks[t].conn, tasks[t].id, FALSE,
                          TRUE, "error", effects(<<>>, <<>>),
                          storeOf(tasks[t].kind))
    /\ UNCHANGED <<vms, nextId, subs, devs, poller, harness>>

\* the reply of the list call; the fetch the handler may start takes the
\* place of its chain
ListEntitiesReply(t) ==
    /\ t \in DOMAIN tasks
    /\ tasks[t].kind \in {"networkUpdateOrDelete", "storagePoolUpdateOrDelete"}
    /\ \E objPaths \in SUBSET Paths :
        LET e == entityUpdateOrDeleteThen(tasks[t].kind, objPaths,
                                          tasks[t].conn, tasks[t].id)
            after == dispatchPools([networks |-> networks,
                                    storagePools |-> storagePools],
                                   e.dispatched)
        IN  /\ networks' = after.networks
            /\ storagePools' = after.storagePools
            /\ tasks' = startAll(Remove(tasks, t), t, e.issued, 0)
            /\ last' = entityLast(tasks[t].kind, tasks[t].conn, tasks[t].id,
                                  FALSE, FALSE, objPaths, e,
                                  storeOf(tasks[t].kind))
    /\ UNCHANGED <<vms, interfaces, nodeDevices, nextId, subs, poller,
                   harness>>

\* the record networkGet or storagePoolGet builds from the replies it got
entityProps(connectionName, objPath, active) ==
    [connectionName |-> connectionName, id |-> objPath,
     name |-> NameOf(objPath), active |-> active]

\* the store action networkGet or storagePoolGet ends with
entityGetAction(kind, props, updateOnly) ==
    IF kind = "networkGet"
    THEN [type |-> "UPDATE_ADD_NETWORK", network |-> props,
          updateOnly |-> updateOnly]
    ELSE [type |-> "UPDATE_ADD_STORAGE_POOL", storagePool |-> props,
          updateOnly |-> updateOnly]

\* a call of networkGet or storagePoolGet fails: nothing is dispatched
EntityGetFail(t) ==
    /\ t \in DOMAIN tasks
    /\ tasks[t].kind \in {"networkGet", "storagePoolGet"}
    /\ tasks' = Remove(tasks, t)
    /\ last' = entityLast(tasks[t].kind, tasks[t].conn, tasks[t].id,
                          tasks[t].updateOnly, TRUE, "error",
                          effects(<<>>, <<>>), storeOf(tasks[t].kind))
    /\ UNCHANGED <<vms, nextId, subs, devs, poller, harness>>

\* the replies of networkGet or storagePoolGet are in: the record is
\* dispatched
EntityGetReply(t) ==
    /\ t \in DOMAIN tasks
    /\ tasks[t].kind \in {"networkGet", "storagePoolGet"}
    /\ \E active \in BOOLEAN :
        LET action == entityGetAction(tasks[t].kind,
                                      entityProps(tasks[t].conn, tasks[t].id,
                                                  active),
                                      tasks[t].updateOnly)
            e == effects(<<action>>, <<>>)
            after == dispatchPools([networks |-> networks,
                                    storagePools |-> storagePools],
                                   e.dispatched)
        IN  /\ networks' = after.networks
            /\ storagePools' = after.storagePools
            /\ last' = entityLast(tasks[t].kind, tasks[t].conn, tasks[t].id,
                                  tasks[t].updateOnly, FALSE, active, e,
                                  storeOf(tasks[t].kind))
    /\ tasks' = Remove(tasks, t)
    /\ UNCHANGED <<vms, interfaces, nodeDevices, nextId, subs, poller,
                   harness>>

\* the monitor of networks and storage pools and the signals of the Domain
\* interface, on stores an earlier refresh filled for one path of one scope
OldEntity(k) == entityProps(k[1], k[2], TRUE)

InitNet ==
    /\ vms = [k \in {TheVm} |-> OldVm(k)]
    /\ tasks = EmptyObj
    /\ nextId = 1
    /\ subs = [c \in ConnNames |-> 0]
    /\ interfaces = EmptyObj
    /\ nodeDevices = EmptyObj
    /\ networks = [k \in {TheVm} |-> OldEntity(k)]
    /\ storagePools = [k \in {TheVm} |-> OldEntity(k)]
    /\ timers = {}
    /\ hidden = FALSE
    /\ libvirtState = "running"
    /\ remote = EmptyObj
    /\ seen = EmptyObj
    /\ dialog = CreateVmModal
    /\ calls = 0
    /\ last = mkLast("init", "", "", FALSE, FALSE, "", <<>>, <<>>, NoBulk)

NextNet ==
    \/ \E c \in ConnNames : StartEventMonitor(c)
    \/ \E c \in Scopes, p \in Paths, e \in NetworkEventTypes :
          NetworkEvent(c, p, e)
    \/ \E c \in Scopes, p \in Paths, s \in EntitySignals :
          NetworkSignal(c, p, s)
    \/ \E c \in Scopes, p \in Paths, e \in StoragePoolEventTypes :
          StoragePoolEvent(c, p, e)
    \/ \E c \in Scopes, p \in Paths, s \in EntitySignals :
          StoragePoolSignal(c, p, s)
    \/ \E c \in Scopes, p \in Paths, s \in DomainSignals : DomainSignal(c, p, s)
    \/ \E t \in DOMAIN tasks : GetVmFail(t)
    \/ \E t \in DOMAIN tasks : GetVmXMLDesc(t)
    \/ \E t \in DOMAIN tasks : GetVmXMLDescInactive(t)
    \/ \E t \in DOMAIN tasks : GetVmGetState(t)
    \/ \E t \in DOMAIN tasks : GetVmGetAll(t)
    \/ \E t \in DOMAIN tasks : ListEntitiesFail(t)
    \/ \E t \in DOMAIN tasks : ListEntitiesReply(t)
    \/ \E t \in DOMAIN tasks : EntityGetFail(t)
    \/ \E t \in DOMAIN tasks : EntityGetReply(t)

SpecNet == InitNet /\ [][NextNet]_vars

(***************************************************************************)
(* Device edits started by the user: changeNetworkSettings without a       *)
(* change of the MAC address, createFilesystem, deleteFilesystem           *)
(***************************************************************************)
DeviceEdits == {"changeNetworkSettings", "createFilesystem",
                "deleteFilesystem"}

\* replies of GetXMLDesc([INACTIVE]): a domain without and with <devices>
EditXmlDocs == {"<domain/>", "<domain><devices/></domain>"}

\* what updateNetworkIface, getFilesystemXML and deleteFilesystemXML return:
\* nothing, or the XML of the device or of the domain
DeviceXmls == {"", "xmlDesc"}

newDeviceEdit(fn, connectionName, objPath) ==
    [kind |-> "deviceEdit", fn |-> fn, conn |-> connectionName,
     id |-> objPath, pc |-> "GetXMLDesc", parent |-> 0]

\* a handler that issues the call whatever the helper returned
deviceEditThenCalls(fn, domXml, xmlDesc) ==
    [outcome |-> "pending",
     issued |-> IF fn = "changeNetworkSettings"
                THEN <<"UpdateDevice">> ELSE <<"DomainDefineXML">>]

\* the .then of the GetXMLDesc call of the three edits; in createFilesystem
\* deviceElem is undefined for a document without <devices> and appendChild
\* throws
deviceEditThen(fn, domXml, xmlDesc) ==
    IF xmlDesc = ""
    THEN [outcome |-> "rejected", issued |-> <<>>]
    ELSE IF fn = "changeNetworkSettings"
    THEN [outcome |-> "pending", issued |-> <<"UpdateDevice">>]
    ELSE IF fn = "createFilesystem" /\ domXml = "<domain/>"
    THEN [outcome |-> "rejected", issued |-> <<>>]
    ELSE [outcome |-> "pending", issued |-> <<"DomainDefineXML">>]

deviceEditLast(t, failed, domXml, reply, outcome, issued) ==
    Assign(mkLast("deviceEdit." \o tasks[t].pc, tasks[t].conn, tasks[t].id,
                  FALSE, failed, reply, <<>>, issued, NoBulk),
           [task |-> t, fn |-> tasks[t].fn, domXml |-> domXml,
            outcome |-> outcome])

DeviceEdit(fn, connectionName, objPath) ==
    /\ nextId <= MaxTasks
    /\ tasks' = Put(tasks, nextId, newDeviceEdit(fn, connectionName, objPath))
    /\ nextId' = nextId + 1
    /\ last' = Assign(mkLast(fn, connectionName, objPath, FALSE, FALSE, "",
                             <<>>, <<"GetXMLDesc">>, NoBulk),
                      [task |-> nextId, fn |-> fn, domXml |-> "",
                       outcome |-> "pending"])
    /\ UNCHANGED <<vms, subs, devs, poller, harness>>

\* a call of the edit fails: nothing catches it inside the operation
DeviceEditFail(t) ==
    /\ t \in DOMAIN tasks
    /\ tasks[t].kind = "deviceEdit"
    /\ tasks' = Remove(tasks, t)
    /\ last' = deviceEditLast(t, TRUE, "", "error", "rejected", <<>>)
    /\ UNCHANGED <<vms, nextId, subs, devs, poller, harness>>

DeviceEditGetXMLDesc(t) ==
    /\ t \in DOMAIN tasks
    /\ tasks[t].kind = "deviceEdit"
    /\ tasks[t].pc = "GetXMLDesc"
    /\ \E domXml \in EditXmlDocs, xmlDesc \in DeviceXmls :
        LET r == deviceEditThen(tasks[t].fn, domXml, xmlDesc)
        IN  /\ tasks' = IF r.outcome = "rejected"
                        THEN Remove(tasks, t)
                        ELSE [tasks EXCEPT ![t].pc = r.issued[1]]
            /\ last' = deviceEditLast(t, FALSE, domXml, xmlDesc, r.outcome,
                                      r.issued)
    /\ UNCHANGED <<vms, nextId, subs, devs, poller, harness>>

\* the reply of UpdateDevice or of DomainDefineXML
DeviceEditReply(t) ==
    /\ t \in DOMAIN tasks
    /\ tasks[t].kind = "deviceEdit"
    /\ tasks[t].pc # "GetXMLDesc"
    /\ tasks' = Remove(tasks, t)
    /\ last' = deviceEditLast(t, FALSE, "", "", "fulfilled", <<>>)
    /\ UNCHANGED <<vms, nextId, subs, devs, poller, harness>>

InitEdit ==
    /\ vms \in {EmptyObj, [k \in {TheVm} |-> OldVm(k)]}
    /\ interfaces = EmptyObj
    /\ nodeDevices = EmptyObj
    /\ networks = EmptyObj
    /\ storagePools = EmptyObj
    /\ tasks = EmptyObj
    /\ nextId = 1
    /\ subs = [c \in ConnNames |-> 0]
    /\ timers = {}
    /\ hidden = FALSE
    /\ libvirtState = "running"
    /\ remote = EmptyObj
    /\ seen = EmptyObj
    /\ dialog = CreateVmModal
    /\ calls = 0
    /\ last = mkLast("init", "", "", FALSE, FALSE, "", <<>>, <<>>, NoBulk)

NextEdit ==
    \/ \E fn \in DeviceEdits, c \in Scopes, p \in Paths : DeviceEdit(fn, c, p)
    \/ \E t \in DOMAIN tasks : DeviceEditFail(t)
    \/ \E t \in DOMAIN tasks : DeviceEditGetXMLDesc(t)
    \/ \E t \in DOMAIN tasks : DeviceEditReply(t)

SpecEdit == InitEdit /\ [][NextEdit]_vars

(***************************************************************************)
(* The create-VM dialog: detection of the operating system of an           *)
(* installation medium (createVmDialog.jsx). autodetectOS returns a        *)
(* process handle: a promise with close(problem), which settles an         *)
(* outstanding process as rejected with that problem.                      *)
(***************************************************************************)
InstallMedia == {"/a.iso", "/b.iso"}

\* props.osInfoList, by id
osInfoList == {"fedora"}

\* what the detection prints: text that is no JSON, a known and an unknown
\* operating system
ResJSONs == {[malformed |-> TRUE, os |-> "", media |-> ""],
             [malformed |-> FALSE, os |-> "fedora", media |-> "m1"],
             [malformed |-> FALSE, os |-> "other", media |-> "m2"]}

\* ex.problem of a detection that failed by itself
Problems == {"not-found"}

newAutodetectOS(installMedia) ==
    [kind |-> "autodetectOS", conn |-> "", id |-> installMedia,
     pc |-> "spawn", problem |-> "", parent |-> 0]

\* handle.close(problem), for the handle h the dialog holds (0: none)
close(ts, h, problem) ==
    IF h \in DOMAIN ts /\ ts[h].pc = "spawn"
    THEN [ts EXCEPT ![h].pc = "closed", ![h].problem = problem]
    ELSE ts

\* the part of onValueChanged('os', ...) and of
\* onValueChanged('sourceMediaID', ...) the detection is about: the two keys
onValueChanged(state, key, value) ==
    [state EXCEPT ![key] = value]

\* the .then of the detection; JSON.parse throws on text that is no JSON
autodetectOSThen(state, res) ==
    IF res.malformed
    THEN state
    ELSE LET found == IF res.os \in osInfoList
                      THEN onValueChanged(onValueChanged(state, "os", res.os),
                                          "sourceMediaID", res.media)
                      ELSE state
         IN  [found EXCEPT !.autodetectOSInProgress = FALSE,
                           !.autodetectOSPromise = 0]

\* a .catch that takes every rejection for a failure
autodetectOSCatchAll(state, problem) ==
    [state EXCEPT !.autodetectOSInProgress = FALSE,
                  !.autodetectOSPromise = 0]

\* the .catch of the detection
autodetectOSCatch(state, problem) ==
    IF problem = "cancelled"
    THEN state
    ELSE [state EXCEPT !.autodetectOSInProgress = FALSE,
                       !.autodetectOSPromise = 0]

dialogLast(op, t, id, failed, reply) ==
    Assign(mkLast(op, "", id, FALSE, failed, reply, <<>>, <<>>, NoBulk),
           [task |-> t, handle |-> dialog.autodetectOSPromise])

\* the debounced callback runs
OnOsAutodetect(installMedia) ==
    /\ nextId <= MaxDetections
    /\ dialog' = [dialog EXCEPT !.autodetectOSInProgress = TRUE,
                                !.autodetectOSPromise = nextId]
    /\ tasks' = Put(close(tasks, dialog.autodetectOSPromise, "cancelled"),
                    nextId, newAutodetectOS(installMedia))
    /\ nextId' = nextId + 1
    /\ last' = dialogLast("onOsAutodetect", nextId, installMedia, FALSE, "")
    /\ UNCHANGED <<vms, subs, devs, poller, remote, seen, calls>>

\* the detection ends with output
AutodetectOSThen(t) ==
    /\ t \in DOMAIN tasks
    /\ tasks[t].kind = "autodetectOS"
    /\ tasks[t].pc = "spawn"
    /\ \E res \in ResJSONs :
        /\ dialog' = autodetectOSThen(dialog, res)
        /\ last' = dialogLast("autodetectOS.then", t, tasks[t].id,
                              res.malformed, res.os)
    /\ tasks' = Remove(tasks, t)
    /\ UNCHANGED <<vms, nextId, subs, devs, poller, remote, seen, calls>>

\* the detection is rejected: by itself, or because it was closed
AutodetectOSCatch(t) ==
    /\ t \in DOMAIN tasks
    /\ tasks[t].kind = "autodetectOS"
    /\ \E problem \in IF tasks[t].pc = "closed"
                      THEN {tasks[t].problem} ELSE Problems :
        /\ dialog' = autodetectOSCatch(dialog, problem)
        /\ last' = dialogLast("autodetectOS.catch", t, tasks[t].id, TRUE,
                              problem)
    /\ tasks' = Remove(tasks, t)
    /\ UNCHANGED <<vms, nextId, subs, devs, poller, remote, seen, calls>>

InitDialog ==
    /\ vms = EmptyObj
    /\ interfaces = EmptyObj
    /\ nodeDevices = EmptyObj
    /\ networks = EmptyObj
    /\ storagePools = EmptyObj
    /\ tasks = EmptyObj
    /\ nextId = 1
    /\ subs = [c \in ConnNames |-> 0]
    /\ timers = {}
    /\ hidden = FALSE
    /\ libvirtState = "running"
    /\ remote = EmptyObj
    /\ seen = EmptyObj
    /\ dialog = CreateVmModal
    /\ calls = 0
    /\ last = mkLast("init", "", "", FALSE, FALSE, "", <<>>, <<>>, NoBulk)

NextDialog ==
    \/ \E installMedia \in InstallMedia : OnOsAutodetect(installMedia)
    \/ \E t \in DOMAIN tasks : AutodetectOSThen(t)
    \/ \E t \in DOMAIN tasks : AutodetectOSCatch(t)

SpecDialog == InitDialog /\ [][NextDialog]_vars

(***************************************************************************)
(* getApiData with a connection name, called any number of times, and the  *)
(* delivery of a DomainEvent signal to every handler subscribed for it.    *)
(* subscribe() of the D-Bus client adds a handler at each call and nothing *)
(* unsubscribes.                                                           *)
(***************************************************************************)
\* the sequence seq, n times over
RECURSIVE times(_, _)
times(seq, n) == IF n = 0 THEN <<>> ELSE seq \o times(seq, n - 1)

\* the refreshes of getApiData whose code is in libvirt-dbus.js, in the
\* order of their calls
refreshes == <<"getAllVms", "getAllInterfaces", "getAllNodeDevices">>

\* the list calls of the refreshes, issued with the subscriptions s in
\* place: a call is monitored when a handler of its connection is subscribed
\* by the time it is issued
RECURSIVE startRefreshes(_, _, _, _, _)
startRefreshes(s, ts, first, kinds, connectionName) ==
    IF kinds = <<>> THEN ts
    ELSE startRefreshes(s,
                        Put(ts, first,
                            Assign(newBulk(Head(kinds), connectionName),
                                   [monitored |-> s[connectionName] > 0])),
                        first + 1, Tail(kinds), connectionName)

\* a getApiData that issues the list calls and subscribes afterwards
getApiDataListsFirst(s, ts, first, connectionName) ==
    [subs |-> startEventMonitor(s, connectionName),
     tasks |-> startRefreshes(s, ts, first, refreshes, connectionName)]

\* getApiData with a connection name: the subscriptions, then the refreshes
getApiData(s, ts, first, connectionName) ==
    LET monitored == startEventMonitor(s, connectionName)
    IN  [subs |-> monitored,
         tasks |-> startRefreshes(monitored, ts, first, refreshes,
                                  connectionName)]

GetApiData(connectionName) ==
    /\ calls < MaxTasks
    /\ calls' = calls + 1
    /\ LET r == getApiData(subs, tasks, nextId, connectionName)
       IN  subs' = r.subs /\ tasks' = r.tasks
    /\ nextId' = nextId + Len(refreshes)
    /\ last' = mkLast("getApiData", connectionName, "", FALSE, FALSE, "",
                      <<>>, <<>>, NoBulk)
    /\ UNCHANGED <<vms, devs, poller, remote, seen, dialog>>

\* a DomainEvent signal of the connection: the client calls every handler
\* subscribed for it, one after the other; at most MaxTasks handler runs
\* besides the refreshes
DomainEventSignal(connectionName, objPath, eventType) ==
    /\ subs[connectionName] > 0
    /\ nextId + subs[connectionName] - 1
         <= Len(refreshes) * calls + MaxTasks
    /\ LET e == domainEventHandler(connectionName, objPath, eventType)
           dispatched == times(e.dispatched, subs[connectionName])
           issued == times(e.issued, subs[connectionName])
       IN  /\ vms' = dispatchAll(vms, dispatched)
           /\ tasks' = startAll(tasks, nextId, issued, 0)
           /\ last' = Assign(mkLast("DomainEvent", connectionName, objPath,
                                    FALSE, FALSE, eventType, dispatched,
                                    issued, NoBulk),
                             [handled |-> subs[connectionName]])
    /\ nextId' = nextId + subs[connectionName]
    /\ UNCHANGED <<subs, devs, poller, harness>>

InitSubs ==
    /\ vms = [k \in {TheVm} |-> OldVm(k)]
    /\ interfaces = EmptyObj
    /\ nodeDevices = EmptyObj
    /\ networks = EmptyObj
    /\ storagePools = EmptyObj
    /\ tasks = EmptyObj
    /\ nextId = 1
    /\ subs = [c \in ConnNames |-> 0]
    /\ timers = {}
    /\ hidden = FALSE
    /\ libvirtState = "running"
    /\ remote = EmptyObj
    /\ seen = EmptyObj
    /\ dialog = CreateVmModal
    /\ calls = 0
    /\ last = mkLast("init", "", "", FALSE, FALSE, "", <<>>, <<>>, NoBulk)

\* the list calls of the refreshes fail, and so does the first call of a
\* fetch a handler starts
NextSubs ==
    \/ \E c \in ConnNames : GetApiData(c)
    \/ \E c \in ConnNames, e \in EventTypes :
          DomainEventSignal(c, TheVm[2], e)
    \/ \E t \in DOMAIN tasks : BulkListFail(t)
    \/ \E t \in DOMAIN tasks : ListDomainsFail(t)
    \/ \E t \in DOMAIN tasks : ListDomainsReply(t)
    \/ \E t \in DOMAIN tasks : GetVmFail(t)

SpecSubs == InitSubs /\ [][NextSubs]_vars

(***************************************************************************)
(* Specification of the start of the console for a connection: getApiData  *)
(* once, the list calls of its refreshes failing or listing nothing, and   *)
(* DomainEvent signals at any time                                         *)
(***************************************************************************)
NextStart ==
    \/ \E c \in ConnNames : calls = 0 /\ GetApiData(c)
    \/ \E c \in ConnNames, e \in EventTypes :
          DomainEventSignal(c, TheVm[2], e)
    \/ \E t \in DOMAIN tasks : BulkListFail(t)
    \/ \E t \in DOMAIN tasks : BulkListReply(t) /\ last'.reply = {}
    \/ \E t \in DOMAIN tasks : ListDomainsFail(t)
    \/ \E t \in DOMAIN tasks : ListDomainsReply(t)
    \/ \E t \in DOMAIN tasks : GetVmFail(t)

SpecStart == InitSubs /\ [][NextStart]_vars

(***************************************************************************)
(* Properties of the event monitor and of getVm (Spec)                     *)
(***************************************************************************)
\* the chain t is a handler of the given kind and this step handles the
\* reply of its ListDomains call
handlesList(t, kind) ==
    /\ tasks[t].kind = kind
    /\ last'.op = kind
    /\ ~last'.failed
    /\ (t \notin DOMAIN tasks' \/ tasks'[t].kind # kind)

C3_UndefinedDecidedByTransientList ==
    [][\A t \in DOMAIN tasks :
          handlesList(t, "domainEventUndefined") =>
            LET k == <<tasks[t].conn, tasks[t].id>>
            IN  IF tasks[t].id \in last'.reply
                THEN /\ vms' = vms
                     /\ tasks' = Put(Remove(tasks, t), t,
                                     newGetVm(k[1], k[2], TRUE, 0))
                ELSE /\ vms' = [x \in DOMAIN vms \ {k} |-> vms[x]]
                     /\ tasks' = Remove(tasks, t)]_vars

\* an Undefined event was handled for a stored domain that the transient-only
\* list still had: the record remains and an update-only fetch is in flight
C3_Witness ==
    /\ last.op = "domainEventUndefined"
    /\ ~last.failed
    /\ last.id \in last.reply
    /\ last.existed
    /\ <<last.conn, last.id>> \in DOMAIN vms
    /\ \E t \in DOMAIN tasks :
          tasks[t] = newGetVm(last.conn, last.id, TRUE, 0)

\* C5: a getVm started with updateOnly that ends while the store has no
\* record of its domain leaves the store without one.
C5_UpdateOnlyNeverCreates ==
    [][\A t \in DOMAIN tasks :
          (/\ tasks[t].kind = "getVm"
           /\ tasks[t].updateOnly
           /\ t \notin DOMAIN tasks'
           /\ <<tasks[t].conn, tasks[t].id>> \notin DOMAIN vms)
          => /\ <<tasks[t].conn, tasks[t].id>> \notin DOMAIN vms'
             /\ vms' = vms]_vars

\* the GetAll reply of an update-only getVm was handled, its update was
\* dispatched, and the store had and has no record of the domain
C5_Witness ==
    /\ last.op = "getVm.GetAll"
    /\ last.updateOnly
    /\ ~last.existed
    /\ Len(last.dispatched) = 1
    /\ last.dispatched[1].type = "UPDATE_VM"
    /\ <<last.conn, last.id>> \notin DOMAIN vms


(***************************************************************************)
(* Bulk refresh                                                            *)
(***************************************************************************)
\* the refresh that completed in the last step, if one did
done == last.bulk

completed(kind) ==
    /\ done.kind = kind
    /\ done.outcome = "fulfilled"

C1_InterfacesWitness ==
    /\ completed("getAllInterfaces")
    /\ done.listed \ storePaths("getAllInterfaces", done.conn) # {}

(***************************************************************************)
(* Merges of the fetchers                                                  *)
(***************************************************************************)
\* the store keeps field f of the record at key as it was, present or absent
keeps(old, new, key, f) ==
    key \in DOMAIN old =>
        /\ key \in DOMAIN new
        /\ Has(new[key], f) = Has(old[key], f)
        /\ Has(old[key], f) => new[key][f] = old[key][f]

\* the field a key of a GetAll reply is stored as
fieldOf(K) ==
    CASE K = "Name" -> "name"
      [] K = "Persistent" -> "persistent"
      [] K = "Autostart" -> "autostart"
      [] K = "Active" -> "active"
      [] K = "MAC" -> "mac"

\* C4: a key the property read of getVm or getInterface did not return is
\* not in the merge payload, and the field of the stored record keeps the
\* value it had
C4_MissingKeyLeftAlone ==
    [][\A t \in DOMAIN tasks :
          LET key == <<tasks[t].conn, tasks[t].id>>
          IN  /\ (/\ tasks[t].kind = "getVm" /\ tasks[t].pc = "GetAll"
                  /\ t \notin DOMAIN tasks' /\ ~last'.failed)
                 => \A K \in {"Name", "Persistent", "Autostart"} :
                       ~Has(last'.reply, K)
                        => /\ ~Has(last'.dispatched[1].vm, fieldOf(K))
                           /\ keeps(vms, vms', key, fieldOf(K))
              /\ (/\ tasks[t].kind = "getInterface" /\ tasks[t].pc = "GetAll"
                  /\ t \in DOMAIN tasks' /\ tasks'[t].pc = "GetXMLDesc")
                 => \A K \in {"Active", "MAC", "Name"} :
                       ~Has(last'.reply, K)
                        => ~Has(tasks'[t].props, fieldOf(K))
              /\ (/\ tasks[t].kind = "getInterface"
                  /\ tasks[t].pc = "GetXMLDesc"
                  /\ t \notin DOMAIN tasks' /\ ~last'.failed)
                 => \A f \in {"active", "mac", "name"} :
                       ~Has(tasks[t].props, f)
                        => /\ ~Has(last'.dispatched[1].iface, f)
                           /\ keeps(interfaces, interfaces', key, f)]_vars

\* a fetch of a known domain whose reply had no Autostart merged: the record
\* has the new state and still the autostart of before
C4_Witness ==
    /\ last.op = "getVm.GetAll"
    /\ ~last.failed
    /\ last.existed
    /\ ~Has(last.reply, "Autostart")
    /\ Has(last.reply, "Persistent")
    /\ <<last.conn, last.id>> \in DOMAIN vms
    /\ vms[<<last.conn, last.id>>].autostart = FALSE
    /\ vms[<<last.conn, last.id>>].state = "shut off"
    /\ vms[<<last.conn, last.id>>].persistent = last.reply.Persistent

(***************************************************************************)
(* Failures of the fetchers                                                *)
(***************************************************************************)
isFetch(task) == task.kind \in {"getVm", "getNodeDevice", "getInterface"}

\* chain t ends in this step because one of its calls failed
failsNow(t) ==
    /\ isFetch(tasks[t])
    /\ t \notin DOMAIN tasks'
    /\ last'.failed
    /\ last'.conn = tasks[t].conn
    /\ last'.id = tasks[t].id

\* C9: when any call of getVm, getNodeDevice or getInterface fails, nothing
\* is dispatched, the stores stay as they are, and the promise of the fetch
\* fulfils: the refresh that waits for it is not rejected
C9_FailureLeavesStore ==
    [][\A t \in DOMAIN tasks :
          failsNow(t)
           => /\ vms' = vms
              /\ interfaces' = interfaces
              /\ nodeDevices' = nodeDevices
              /\ last'.dispatched = <<>>
              /\ last'.bulk.kind # "none" => last'.bulk.outcome = "fulfilled"
              /\ (tasks[t].parent # 0 /\ last'.bulk.kind = "none")
                  => /\ tasks[t].parent \in DOMAIN tasks'
                     /\ t \notin tasks'[tasks[t].parent].pending]_vars

\* the last call of a getVm failed, after the properties were assembled; no
\* record was made and the refresh that waited for it is fulfilled
C9_Witness ==
    /\ last.failed
    /\ last.op = "getVm.GetAll"
    /\ <<last.conn, last.id>> \notin DOMAIN vms
    /\ completed("getAllVms")
    /\ last.id \in done.failed

\* C10: the fetches of a bulk refresh are independent: a fetch that fails
\* leaves the other fetches running as they were, and when the refresh
\* completes every listed path whose own fetch did not fail has its record
C10_FetchesIndependent ==
    /\ [][\A t \in DOMAIN tasks :
            failsNow(t)
             => \A u \in DOMAIN tasks \ {t} :
                   isFetch(tasks[u])
                    => u \in DOMAIN tasks' /\ tasks'[u] = tasks[u]]_vars
    /\ [](\A kind \in {"getAllVms", "getAllNodeDevices"} :
            completed(kind)
             => (done.listed \ done.failed)
                    \subseteq storePaths(kind, done.conn))

\* a refresh of two domains completed: the fetch of one had failed, the
\* fetch of the other merged in the last step
C10_Witness ==
    /\ completed("getAllVms")
    /\ done.failed # {}
    /\ done.listed \ done.failed # {}
    /\ done.had = {}
    /\ last.op = "getVm.GetAll"
    /\ ~last.failed
    /\ storePaths("getAllVms", done.conn) = done.listed \ done.failed


(***************************************************************************)
(* Usage sample                                                            *)
(***************************************************************************)
usageCleared(vm) ==
    /\ vm.rssMemory = 0
    /\ vm.cpuTime = jsNum(0)
    /\ vm.actualTimeInMs = -1
    /\ vm.disksStats = EmptyObj

\* the reply of a polling cycle is handled in this step
pollReplied(t) ==
    /\ tasks[t].kind = "doUsagePolling"
    /\ t \notin DOMAIN tasks'
    /\ last'.op = "doUsagePolling.GetStats"
    /\ ~last'.failed

\* C6: when the state of a stored domain becomes shut off, its usage sample
\* (rssMemory, cpuTime, sample time, disk statistics) is reset in the same
\* merge, not left as last observed; and a statistics reply that reports the
\* domain shut off and no balloon.rss stores rssMemory 0
C6_UsageClearedOnShutOff ==
    [][/\ \A key \in DOMAIN vms \cap DOMAIN vms' :
            (/\ vms[key].state # "shut off"
             /\ vms'[key].state = "shut off")
            => usageCleared(vms'[key])
       /\ \A t \in DOMAIN tasks :
            (/\ pollReplied(t)
             /\ last'.dispatched # <<>>
             /\ ~Has(last'.reply, "balloon.rss")
             /\ Has(last'.reply, "state.state")
             /\ last'.reply["state.state"] = VIR_DOMAIN_SHUTOFF)
            => /\ Has(last'.dispatched[1].vm, "rssMemory")
               /\ last'.dispatched[1].vm.rssMemory = 0
               /\ <<tasks[t].conn, tasks[t].id>> \in DOMAIN vms
                   => vms'[<<tasks[t].conn, tasks[t].id>>].rssMemory = 0]_vars

\* a domain that was polled is fetched and found shut off: the record is
\* shut off and its sample is reset
C6_Witness ==
    /\ last.op = "getVm.GetAll"
    /\ ~last.failed
    /\ last.existed
    /\ timers # {}
    /\ TheVm \in DOMAIN vms
    /\ Has(vms[TheVm], "usagePolling")
    /\ vms[TheVm].state = "shut off"
    /\ usageCleared(vms[TheVm])

\* C8: when a statistics reply reports vcpu.current = 0, the handler does
\* not fail on the average (the division gives Infinity or NaN), the update
\* it dispatches has neither cpuTime nor actualTimeInMs, and the stored
\* values of both stay as they were
C8_NoSampleForZeroVcpus ==
    [][\A t \in DOMAIN tasks :
          (/\ pollReplied(t)
           /\ Has(last'.reply, "vcpu.maximum")
           /\ Has(last'.reply, "vcpu.current")
           /\ last'.reply["vcpu.current"] = 0)
          => /\ last'.threw \notin {"vcpu.maximum", "vcpu.current"}
             /\ last'.threw = "" =>
                  /\ Len(last'.dispatched) = 1
                  /\ ~Has(last'.dispatched[1].vm, "cpuTime")
                  /\ ~Has(last'.dispatched[1].vm, "actualTimeInMs")
             /\ keeps(vms, vms', <<tasks[t].conn, tasks[t].id>>, "cpuTime")
             /\ keeps(vms, vms', <<tasks[t].conn, tasks[t].id>>,
                      "actualTimeInMs")]_vars

\* a reply with vcpu.current = 0 and a vCPU time (the average is Infinity)
\* was merged: the record has the disk statistics of the reply and the
\* cpuTime and sample time of before
C8_Witness ==
    /\ last.op = "doUsagePolling.GetStats"
    /\ ~last.failed
    /\ last.threw = ""
    /\ Has(last.reply, "vcpu.current")
    /\ last.reply["vcpu.current"] = 0
    /\ Has(last.reply, vcpuKey(0))
    /\ Len(last.dispatched) = 1
    /\ TheVm \in DOMAIN vms
    /\ vms[TheVm].disksStats = last.dispatched[1].vm.disksStats
    /\ vms[TheVm].disksStats # undefined
    /\ Has(vms[TheVm], "cpuTime")
    /\ vms[TheVm].cpuTime = jsNum(3)
    /\ vms[TheVm].actualTimeInMs = 1

(***************************************************************************)
(* Idempotence of getVm                                                    *)
(***************************************************************************)
secondRunDone ==
    /\ nextId = 3
    /\ tasks = EmptyObj
    /\ last.op = "getVm.GetAll"

isTransient(vm) == Has(vm, "persistent") /\ ~vm.persistent

loopsOf(ts, tms) ==
    {t \in DOMAIN ts : ts[t].kind = "doUsagePolling"}
        \cup {timer.loop : timer \in tms}

timersOf(tms, loop) == {timer \in tms : timer.loop = loop}

\* the callback of this timer runs in this step
ticks(timer, fn) ==
    /\ timer.fn = fn
    /\ last'.op = fn
    /\ last'.loop = timer.loop

\* the GetStats call of loop t settles in this step
pollSettles(t) ==
    /\ tasks[t].kind = "doUsagePolling"
    /\ t \notin DOMAIN tasks'

\* C12: a polling cycle that finds the flag usagePolling of the domain not
\* set issues no GetStats call and arms no timer, and changes nothing in
\* the store: the loop has ended; a cycle that finds it set issues the call;
\* and a loop ends in no other step
C12_FlagStopsLoop ==
    [][/\ \A timer \in timers :
            (ticks(timer, "delayPollingHelper") /\ last'.executed)
            => IF usagePollingEnabled(vms, timer.name, timer.conn)
               THEN /\ timer.loop \in DOMAIN tasks'
                    /\ tasks'[timer.loop].pc = "GetStats"
               ELSE /\ timer.loop \notin loopsOf(tasks', timers')
                    /\ tasks' = tasks
                    /\ timers' = timers \ {timer}
                    /\ vms' = vms
       /\ \A l \in loopsOf(tasks, timers) :
            l \notin loopsOf(tasks', timers')
            => /\ last'.op = "delayPollingHelper"
               /\ last'.executed
               /\ last'.loop = l
               /\ ~usagePollingEnabled(vms, last'.name, last'.conn)]_vars

\* polling was stopped, and the cycle that came next ended the loop
C12_Witness ==
    /\ last.op = "delayPollingHelper"
    /\ last.executed
    /\ last.loop \notin loopsOf(tasks, timers)
    /\ TheVm \in DOMAIN vms
    /\ Has(vms[TheVm], "usagePolling")
    /\ ~vms[TheVm].usagePolling

\* C13: when the GetStats call of a cycle settles, by a reply that is
\* merged, an empty reply, a reply whose handling throws, or a failure,
\* exactly one timer is armed for the loop, and no other timer changes
C13_OneNextCycle ==
    [][\A t \in DOMAIN tasks :
          pollSettles(t)
          => /\ timersOf(timers, t) = {}
             /\ Cardinality(timersOf(timers', t)) = 1
             /\ timers' \ timersOf(timers', t) = timers]_vars

\* a GetStats call failed and the next cycle of its loop is armed
C13_Witness ==
    /\ last.op = "doUsagePolling.GetStats"
    /\ last.failed
    /\ \E t \in loopsOf(tasks, timers) :
          /\ t \notin DOMAIN tasks
          /\ Cardinality(timersOf(timers, t)) = 1

C15_ServiceDownDefersAction ==
    [][\A timer \in timers :
          ticks(timer, "delayPollingHelper")
          => IF libvirtState # "running"
             THEN /\ ~last'.executed
                  /\ timers' = timers
                  /\ tasks' = tasks
                  /\ vms' = vms
             ELSE /\ last'.executed
                  /\ timer \notin timers'
                  /\ usagePollingEnabled(vms, timer.name, timer.conn)
                      => timer.loop \in DOMAIN tasks']_vars

\* the service is not running, the helper has ticked, and its timer is
\* armed as before
C15_Witness ==
    /\ libvirtState # "running"
    /\ last.op = "delayPollingHelper"
    /\ ~last.executed
    /\ \E timer \in timers :
          /\ timer.loop = last.loop
          /\ timer.fn = "delayPollingHelper"
          /\ timer.delay = timer.timeout

\* C16: usageStopPolling leaves the GetStats call in flight and the timers
\* as they are; the reply of a call that was in flight is merged as any
\* other, the update has no usagePolling key and the flag stays unset; the
\* cycle after it issues no call
C16_StopLeavesCallInFlight ==
    [][/\ last'.op = "usageStopPolling"
            => tasks' = tasks /\ timers' = timers
       /\ \A t \in DOMAIN tasks :
            (/\ pollReplied(t)
             /\ ~usagePollingEnabled(vms, tasks[t].name, tasks[t].conn))
            => LET key == <<tasks[t].conn, tasks[t].id>>
               IN  /\ ~usagePollingEnabled(vms', tasks[t].name, tasks[t].conn)
                   /\ Cardinality(timersOf(timers', t)) = 1
                   /\ \A i \in DOMAIN last'.dispatched :
                        LET vm == last'.dispatched[i].vm
                        IN  /\ ~Has(vm, "usagePolling")
                            /\ key \in DOMAIN vms
                                => \A f \in DOMAIN vm :
                                      /\ Has(vms'[key], f)
                                      /\ vms'[key][f] = vm[f]
       /\ \A timer \in timers :
            (/\ ticks(timer, "delayPollingHelper")
             /\ last'.executed
             /\ ~usagePollingEnabled(vms, timer.name, timer.conn))
            => tasks' = tasks]_vars

\* polling was stopped while a call was in flight; its reply came and the
\* record has the sample of the reply and the flag unset
C16_Witness ==
    /\ last.op = "doUsagePolling.GetStats"
    /\ ~last.failed
    /\ Len(last.dispatched) = 1
    /\ Has(last.reply, "balloon.rss")
    /\ TheVm \in DOMAIN vms
    /\ Has(vms[TheVm], "usagePolling")
    /\ ~vms[TheVm].usagePolling
    /\ Has(vms[TheVm], "rssMemory")
    /\ vms[TheVm].rssMemory = last.reply["balloon.rss"]


(***************************************************************************)
(* Lifecycle events of domains                                             *)
(***************************************************************************)
\* this step is the handler of a DomainEvent signal with one of these codes
handlesEvent(codes) ==
    /\ last'.op = "DomainEvent"
    /\ last'.reply \in codes

\* C17: the handler of a Defined or Started event of a domain changes
\* nothing in the store and starts one getVm of that domain that is not
\* update-only; when such a getVm ends with its GetAll reply, the store has
\* a record of the domain, whether or not it had one before
C17_DefinedStartedUpsert ==
    [][/\ handlesEvent({domainEvent.Defined, domainEvent.Started})
            => /\ vms' = vms
               /\ tasks' = Put(tasks, nextId,
                               newGetVm(last'.conn, last'.id, FALSE, 0))
       /\ \A t \in DOMAIN tasks :
            (/\ tasks[t].kind = "getVm"
             /\ ~tasks[t].updateOnly
             /\ last'.op = "getVm.GetAll"
             /\ ~last'.failed
             /\ t \notin DOMAIN tasks')
            => LET key == <<tasks[t].conn, tasks[t].id>>
               IN  /\ key \in DOMAIN vms'
                   /\ vms'[key].connectionName = tasks[t].conn
                   /\ vms'[key].id = tasks[t].id]_vars

\* the fetch a Defined or Started event started came back for a domain the
\* store did not have, and the store has its record
C17_Witness ==
    /\ last.op = "getVm.GetAll"
    /\ ~last.failed
    /\ ~last.updateOnly
    /\ ~last.existed
    /\ <<last.conn, last.id>> \in DOMAIN vms

\* C19: the handler of a Suspended or Resumed event starts no call; when
\* the store has a record of the domain its state becomes paused or running
\* and nothing else of the store changes; when it has none the store is
\* left as it is
C19_SuspendedResumedInPlace ==
    [][handlesEvent({domainEvent.Suspended, domainEvent.Resumed})
          => LET key == <<last'.conn, last'.id>>
                 state == IF last'.reply = domainEvent.Suspended
                          THEN "paused" ELSE "running"
             IN  /\ tasks' = tasks
                 /\ last'.issued = <<>>
                 /\ DOMAIN vms' = DOMAIN vms
                 /\ \A k \in DOMAIN vms :
                      IF k = key
                      THEN /\ DOMAIN vms'[k] = DOMAIN vms[k]
                           /\ vms'[k].state = state
                           /\ \A f \in DOMAIN vms[k] \ {"state"} :
                                vms'[k][f] = vms[k][f]
                      ELSE vms'[k] = vms[k]]_vars

\* a Suspended event was handled for a stored domain that was running: the
\* record says paused and keeps its name
C19_Witness ==
    /\ last.op = "DomainEvent"
    /\ last.reply = domainEvent.Suspended
    /\ last.existed
    /\ <<last.conn, last.id>> \in DOMAIN vms
    /\ vms[<<last.conn, last.id>>].state = "paused"
    /\ Has(vms[<<last.conn, last.id>>], "name")


(***************************************************************************)
(* Events and signals of networks and storage pools (SpecNet)              *)
(***************************************************************************)
\* this step is the handler op with one of these event codes or signals
handles(op, inputs) ==
    /\ last'.op = op
    /\ last'.reply \in inputs

\* the handler started the one fetch fn of its entity, and nothing else
\* changed
startsFetch(fn, updateOnly) ==
    /\ tasks' = Put(tasks, nextId,
                    newEntityGet(fn, last'.conn, last'.id, updateOnly))
    /\ UNCHANGED <<vms, networks, storagePools>>

\* the fetch of chain t ends in this step with its record dispatched
entityFetched(t, fn) ==
    /\ tasks[t].kind = fn
    /\ tasks[t].pc = "GetAll"
    /\ last'.op = fn
    /\ ~last'.failed
    /\ t \notin DOMAIN tasks'

listsVms(t) ==
    /\ tasks[t].kind = "getAllVms"
    /\ tasks[t].pc = "List"
    /\ last'.op = "getAllVms"
    /\ ~last'.failed

\* C23: when the list call of a bulk refresh of domains is answered, the
\* store after the step is the store before it without the records of the
\* refreshed scope whose path the reply lacks: the records of the other
\* scope and the listed records are as they were; the deletion is the first
\* thing the handler does, and every per-domain fetch it starts has issued
\* its first call only
C23_DeleteUnlistedFirst ==
    [][\A t \in DOMAIN tasks :
          listsVms(t)
          => LET connectionName == tasks[t].conn
                 listed == last'.reply
                 kept == {k \in DOMAIN vms :
                             k[1] # connectionName \/ k[2] \in listed}
             IN  /\ vms' = [k \in kept |-> vms[k]]
                 /\ Len(last'.dispatched) = 1
                 /\ last'.dispatched[1].type = "DELETE_UNLISTED_VMS"
                 /\ Len(last'.issued) = Cardinality(listed)
                 /\ \A n \in DOMAIN tasks' \ DOMAIN tasks :
                       /\ tasks'[n].kind = "getVm"
                       /\ tasks'[n].conn = connectionName
                       /\ tasks'[n].id \in listed
                       /\ tasks'[n].pc = "GetXMLDesc"
                       /\ tasks'[n].props = EmptyObj]_vars

\* a refresh of the scope system found /p2 listed and /p1 not: the record
\* of /p1 is gone, the record of /p1 of the scope session is there
C23_Witness ==
    /\ last.op = "getAllVms"
    /\ last.conn = "system"
    /\ ~last.failed
    /\ \E t \in DOMAIN tasks :
          /\ tasks[t].kind = "getAllVms"
          /\ tasks[t].pc = "all"
          /\ "/p1" \in tasks[t].had
          /\ tasks[t].listed = {"/p2"}
    /\ <<"system", "/p1">> \notin DOMAIN vms
    /\ <<"system", "/p2">> \in DOMAIN vms
    /\ <<"session", "/p1">> \in DOMAIN vms


(***************************************************************************)
(* Lifecycle events the handler has no case for (Spec)                     *)
(***************************************************************************)
\* C27: the handler of a DomainEvent whose code is Shutdown, PMsuspended or
\* Crashed dispatches nothing and starts no call: the store and the chains
\* in flight are as they were
C27_OtherEventsIgnored ==
    [][handlesEvent({domainEvent.Shutdown, domainEvent.PMsuspended,
                     domainEvent.Crashed})
          => /\ last'.dispatched = <<>>
             /\ last'.issued = <<>>
             /\ tasks' = tasks
             /\ UNCHANGED <<vms, interfaces, nodeDevices, networks,
                            storagePools, timers>>]_vars

\* a Crashed event was handled for a stored domain: its record is there and
\* no chain is in flight
C27_Witness ==
    /\ last.op = "DomainEvent"
    /\ last.reply = domainEvent.Crashed
    /\ last.existed
    /\ <<last.conn, last.id>> \in DOMAIN vms
    /\ last.issued = <<>>
    /\ tasks = EmptyObj


(***************************************************************************)
(* Stopped and Undefined events of networks and storage pools (SpecNet)    *)
(***************************************************************************)
\* the chain t is the handler kind and its list call is answered in this
\* step
entityListed(t, kind) ==
    /\ tasks[t].kind = kind
    /\ last'.op = kind
    /\ ~last'.failed
    /\ (t \notin DOMAIN tasks' \/ tasks'[t].kind # kind)

\* what the answered list call of the handler of chain t leads to: with the
\* path listed, an update-only fetch fn and the stores as they were; with
\* the path not listed, no fetch and the record gone from its store
updatedOrDeleted(t, fn, store, storeAfter) ==
    LET key == <<tasks[t].conn, tasks[t].id>>
    IN  IF tasks[t].id \in last'.reply
        THEN /\ storeAfter = store
             /\ tasks' = Put(Remove(tasks, t), t,
                             newEntityGet(fn, key[1], key[2], TRUE))
        ELSE /\ storeAfter = [k \in DOMAIN store \ {key} |-> store[k]]
             /\ tasks' = Remove(tasks, t)

\* C28: the handler of the Stopped event of a network or of a storage pool
\* changes nothing in the store and starts the list call of its kind; when
\* the reply has the path, an update-only fetch of the entity is started and
\* the stores are as they were; when it has not, the record is removed from
\* the store of its kind and nothing else changes
C28_StoppedDecidedByList ==
    [][/\ handles("NetworkEvent", {networkEvent.Stopped})
            => /\ tasks' = Put(tasks, nextId,
                               newListTask("networkUpdateOrDelete",
                                           last'.conn, last'.id))
               /\ UNCHANGED <<networks, storagePools>>
       /\ handles("StoragePoolEvent", {storagePoolEvent.Stopped})
            => /\ tasks' = Put(tasks, nextId,
                               newListTask("storagePoolUpdateOrDelete",
                                           last'.conn, last'.id))
               /\ UNCHANGED <<networks, storagePools>>
       /\ \A t \in DOMAIN tasks :
            /\ entityListed(t, "networkUpdateOrDelete")
                => /\ updatedOrDeleted(t, "networkGet", networks, networks')
                   /\ storagePools' = storagePools
            /\ entityListed(t, "storagePoolUpdateOrDelete")
                => /\ updatedOrDeleted(t, "storagePoolGet", storagePools,
                                       storagePools')
                   /\ networks' = networks]_vars

\* the Stopped event of a stored network was handled and the list had its
\* path: the record is there and an update-only fetch is in flight
C28_Witness ==
    /\ last.op = "networkUpdateOrDelete"
    /\ ~last.failed
    /\ last.id \in last.reply
    /\ last.existed
    /\ <<last.conn, last.id>> \in DOMAIN networks
    /\ \E t \in DOMAIN tasks :
          tasks[t] = newEntityGet("networkGet", last.conn, last.id, TRUE)

\* C29: the handler of the Undefined event of a network or of a storage
\* pool leaves the store as it is and starts a list call, on whose reply
\* the record is removed or re-read
C29_UndefinedRelists ==
    [][(\/ handles("NetworkEvent", {networkEvent.Undefined})
        \/ handles("StoragePoolEvent", {storagePoolEvent.Undefined}))
          => /\ UNCHANGED <<networks, storagePools>>
             /\ \E t \in DOMAIN tasks' \ DOMAIN tasks :
                   tasks'[t].pc \in {"ListNetworks", "ListStoragePools"}]_vars


(***************************************************************************)
(* The CPU time of a sample (SpecPoll)                                     *)
(***************************************************************************)
\* the indices below vcpu.maximum whose time the reply has
reporting(info) ==
    {i \in 0..(info["vcpu.maximum"] - 1) : Has(info, vcpuKey(i))}

RECURSIVE timeOf(_, _)
timeOf(info, indices) ==
    IF indices = {} THEN 0
    ELSE LET i == CHOOSE j \in indices : TRUE
         IN  info[vcpuKey(i)] + timeOf(info, indices \ {i})

\* C30: the cpuTime of the sample a polling cycle dispatches, and the store
\* then holds, is the sum of the times of the vCPUs below vcpu.maximum that
\* report one, over vcpu.current: a vCPU that reports none adds nothing, a
\* time at or above vcpu.maximum is not counted, and the divisor is not the
\* number of vCPUs that reported
C30_CpuTimeAverage ==
    [][\A t \in DOMAIN tasks :
          (/\ pollReplied(t)
           /\ Len(last'.dispatched) = 1
           /\ Has(last'.dispatched[1].vm, "cpuTime"))
          => LET info == last'.reply
                 key == <<tasks[t].conn, tasks[t].id>>
                 cpuTime == [num |-> timeOf(info, reporting(info)),
                             den |-> info["vcpu.current"]]
             IN  /\ last'.dispatched[1].vm.cpuTime = cpuTime
                 /\ key \in DOMAIN vms => vms'[key].cpuTime = cpuTime]_vars

\* a reply with two vCPUs of which only the second reports a time: the
\* stored cpuTime is that one time over two
C30_Witness ==
    /\ last.op = "doUsagePolling.GetStats"
    /\ ~last.failed
    /\ Has(last.reply, "vcpu.current")
    /\ last.reply["vcpu.current"] = 2
    /\ ~Has(last.reply, vcpuKey(0))
    /\ Has(last.reply, vcpuKey(1))
    /\ TheVm \in DOMAIN vms
    /\ Has(vms[TheVm], "cpuTime")
    /\ vms[TheVm].cpuTime = [num |-> last.reply[vcpuKey(1)], den |-> 2]


(***************************************************************************)
(* Two fetches of one domain (SpecRace)                                    *)
(***************************************************************************)
\* the fetch t ends in this step with its GetAll reply
fetched(t) ==
    /\ tasks[t].kind = "getVm"
    /\ tasks[t].pc = "GetAll"
    /\ last'.op = "getVm.GetAll"
    /\ ~last'.failed
    /\ t \notin DOMAIN tasks'

\* the record the fetch t has read when its GetAll reply is in
recordOf(t, returnProps) ==
    Assign(propsAfterGetAll(tasks[t].props, returnProps),
           parseDumpxml(tasks[t].conn, tasks[t].domainXML, tasks[t].id))

stateRead(state) == DOMAINSTATE[state[1][1] + 1]

\* the keys of the usage sample, which a record read as not running resets
usageKeys == {"actualTimeInMs", "cpuTime", "rssMemory", "disksStats"}

\* C24: a fetch that ends is merged into the store whatever the order in
\* which the fetches were issued, also when a fetch issued after it has
\* ended before it: every key of the record it read has the value it read,
\* and a key it did not read, the usage sample apart, keeps the value the
\* store had, so the store holds the state the fetch that ended last read
C24_CompletionOrder ==
    [][\A t \in DOMAIN tasks :
          fetched(t)
          => LET vm == recordOf(t, last'.reply)
                 key == <<tasks[t].conn, tasks[t].id>>
             IN  /\ key \in DOMAIN vms'
                 /\ \A f \in DOMAIN vm : vms'[key][f] = vm[f]
                 /\ vms'[key].state = stateRead(remote[t])
                 /\ key \in DOMAIN vms
                     => \A f \in DOMAIN vms[key] \ (DOMAIN vm \cup usageKeys) :
                           vms'[key][f] = vms[key][f]]_vars

\* both fetches have ended, the domain changed state between their reads,
\* and the store holds the state the fetch issued first read: that fetch
\* ended last
C24_Witness ==
    /\ nextId = MaxTasks + 1
    /\ tasks = EmptyObj
    /\ last.op = "getVm.GetAll"
    /\ stateRead(remote[1]) # stateRead(remote[MaxTasks])
    /\ TheVm \in DOMAIN vms
    /\ vms[TheVm].state = stateRead(remote[1])

(***************************************************************************)
(* Properties of the device edits (SpecEdit)                               *)
(***************************************************************************)
\* this step runs the .then of the GetXMLDesc call of edit t
editReads(t) ==
    /\ tasks[t].kind = "deviceEdit"
    /\ tasks[t].pc = "GetXMLDesc"
    /\ last'.op = "deviceEdit.GetXMLDesc"
    /\ last'.task = t
    /\ ~last'.failed

\* C21: when the helper of changeNetworkSettings (without a change of the MAC
\* address), of createFilesystem or of deleteFilesystem returns no device XML
\* for the domain XML read, the operation's promise rejects in that step, no
\* UpdateDevice and no DomainDefineXML call is issued and the store is left
\* as it was.
C21_ValidationFaultRejects ==
    [][\A t \in DOMAIN tasks :
        (editReads(t) /\ last'.reply = "")
        => /\ t \notin DOMAIN tasks'
           /\ DOMAIN tasks' \subseteq DOMAIN tasks
           /\ last'.outcome = "rejected"
           /\ last'.issued = <<>>
           /\ UNCHANGED <<vms, devs>>]_vars

C21_Witness ==
    /\ last.op = "deviceEdit.GetXMLDesc"
    /\ last.fn = "createFilesystem"
    /\ last.domXml = "<domain><devices/></domain>"
    /\ last.reply = ""
    /\ last.outcome = "rejected"
    /\ last.task \notin DOMAIN tasks

(***************************************************************************)
(* Properties of the detection of the operating system (SpecDialog)        *)
(***************************************************************************)
\* the detection the dialog holds a handle of is still running
outstanding(ts, state) ==
    /\ state.autodetectOSPromise \in DOMAIN ts
    /\ ts[state.autodetectOSPromise].pc = "spawn"

\* C22: a detection started while another one is outstanding closes that one
\* with 'cancelled' and takes over the handle; the .catch of the closed one
\* then changes nothing in the dialog: the in-progress flag and the handle,
\* which is not the closed detection's any more, stay as they are.
C22_CancelledIgnored ==
    [][/\ (last'.op = "onOsAutodetect" /\ outstanding(tasks, dialog))
          => LET h == dialog.autodetectOSPromise
             IN  /\ tasks'[h].pc = "closed"
                 /\ tasks'[h].problem = "cancelled"
                 /\ dialog'.autodetectOSPromise # h
                 /\ outstanding(tasks', dialog')
                 /\ dialog'.autodetectOSInProgress
       /\ \A t \in DOMAIN tasks :
            (/\ tasks[t].kind = "autodetectOS"
             /\ tasks[t].pc = "closed"
             /\ last'.op = "autodetectOS.catch"
             /\ last'.task = t)
            => /\ last'.reply = "cancelled"
               /\ dialog' = dialog
               /\ dialog.autodetectOSPromise # t]_vars

\* the closed detection's .catch has run while the newer one is outstanding
C22_Witness ==
    /\ last.op = "autodetectOS.catch"
    /\ last.reply = "cancelled"
    /\ last.task \notin DOMAIN tasks
    /\ outstanding(tasks, dialog)
    /\ dialog.autodetectOSPromise # last.task
    /\ dialog.autodetectOSInProgress

(***************************************************************************)
(* Properties of the subscriptions (SpecSubs)                              *)
(***************************************************************************)
\* C25: whatever the number of getApiData invocations for a connection
\* scope, the scope has one subscription set at most, and a DomainEvent
\* signal is handled once.
C25_OneSubscriptionSet ==
    /\ \A c \in Scopes : subs[c] <= 1
    /\ last.op = "DomainEvent" => last.handled = 1

\* C26: startEventMonitor registers no handler for a connection name other
\* than 'session' and 'system', whatever the number of getApiData
\* invocations with that name, so that no signal of such a connection is
\* ever handled: every handled signal is one of a known scope, and the
\* records of the other connections change in no signal's step.
C26_UnknownScopeIgnored ==
    [][/\ \A c \in ConnNames \ Scopes : subs'[c] = 0
       /\ last'.op = "DomainEvent"
          => /\ last'.conn \in Scopes
             /\ \A k \in DOMAIN vms \cup DOMAIN vms' :
                  k[1] \notin Scopes
                  => /\ k \in DOMAIN vms
                     /\ k \in DOMAIN vms'
                     /\ vms'[k] = vms[k]]_vars

\* getApiData has run for the connection "remote", and a signal of a known
\* scope was handled since
C26_Witness ==
    /\ last.op = "DomainEvent"
    /\ subs["remote"] = 0
    /\ \E t \in DOMAIN tasks :
          tasks[t].kind \in BulkKinds /\ tasks[t].conn = "remote"

(***************************************************************************)
(* Properties of the disk statistics of a sample (SpecPoll)                *)
(***************************************************************************)
diskFields == {"physical", "capacity", "allocation"}

\* the disks of a statistics reply that have a target name
namedDisks(info) ==
    {i \in 0..(info["block.count"] - 1) :
        /\ Has(info, blockKey(i, "name"))
        /\ info[blockKey(i, "name")] # ""}

\* the entry has the three keys, each with the value of the reply as a
\* string, or NaN when the reply has none
entryOf(info, i, entry) ==
    /\ DOMAIN entry = diskFields
    /\ \A f \in diskFields :
          entry[f] = IF Has(info, blockKey(i, f))
                     THEN numToString(info[blockKey(i, f)]) ELSE NaN

\* C31: in the sample of a statistics reply that reports disks, the entry of
\* every disk with a target name has the three keys physical, capacity and
\* allocation, each on its own the value of the reply or, when the reply
\* has none, NaN; and the record of the domain, when the store has one, has
\* these entries after the merge.
C31_DiskStatsKeys ==
    [][\A t \in DOMAIN tasks :
          (/\ pollReplied(t)
           /\ last'.dispatched # <<>>
           /\ Has(last'.reply, "block.count")
           /\ last'.reply["block.count"] > 0)
          => LET info == last'.reply
                 disksStats == last'.dispatched[1].vm.disksStats
                 key == <<tasks[t].conn, tasks[t].id>>
             IN  /\ DOMAIN disksStats
                      = {info[blockKey(i, "name")] : i \in namedDisks(info)}
                 /\ \A i \in namedDisks(info) :
                      entryOf(info, i, disksStats[info[blockKey(i, "name")]])
                 /\ key \in DOMAIN vms
                      => vms'[key].disksStats = disksStats]_vars

\* a reply with the capacity of a disk only was merged: the entry has NaN
\* for the two others
C31_Witness ==
    /\ last.op = "doUsagePolling.GetStats"
    /\ ~last.failed
    /\ last.dispatched # <<>>
    /\ Has(last.reply, "block.0.capacity")
    /\ ~Has(last.reply, "block.0.physical")
    /\ TheVm \in DOMAIN vms
    /\ Has(vms[TheVm], "disksStats")
    /\ DOMAIN vms[TheVm].disksStats = {"vda"}
    /\ vms[TheVm].disksStats["vda"].physical = NaN
    /\ vms[TheVm].disksStats["vda"].capacity = "2"

(***************************************************************************)
(* Properties of the number and of the end of the polling loops (SpecPoll, *)
(* SpecPollFair)                                                           *)
(***************************************************************************)
\* the GetStats calls in flight and the timers pending for a domain
callsOf(ts, connectionName, objPath) ==
    {t \in DOMAIN ts : /\ ts[t].kind = "doUsagePolling"
                       /\ ts[t].conn = connectionName
                       /\ ts[t].id = objPath}

pendingOf(tms, connectionName, objPath) ==
    {timer \in tms : timer.conn = connectionName /\ timer.id = objPath}

\* C32: whatever usageStartPolling and usageStopPolling calls were made for
\* a domain, there is at most one GetStats call in flight or timer pending
\* for it at a time.
C32_OneLoopPerDomain ==
    \A c \in Scopes, p \in Paths :
        Cardinality(callsOf(tasks, c, p))
            + Cardinality(pendingOf(timers, c, p)) <= 1

\* polling of the domain is stopped
stopped == ~usagePollingEnabled(vms, NameOf(TheVm[2]), TheVm[1])

noLoop == loopsOf(tasks, timers) = {}

C34_SampleAddsNoRecord ==
    [][\A t \in DOMAIN tasks :
          pollReplied(t)
          => /\ DOMAIN vms' = DOMAIN vms
             /\ \A i \in DOMAIN last'.dispatched :
                  last'.dispatched[i].type = "UPDATE_VM"]_vars

\* the record was removed while the call was in flight, the reply carried a
\* sample, and the store has no record
C34_Witness ==
    /\ last.op = "doUsagePolling.GetStats"
    /\ ~last.failed
    /\ last.dispatched # <<>>
    /\ Has(last.dispatched[1].vm, "rssMemory")
    /\ vms = EmptyObj

(***************************************************************************)
(* Properties of the start of the console (SpecStart)                      *)
(***************************************************************************)
\* this step handles the reply of the list call of refresh t
listReplied(t) ==
    /\ tasks[t].kind \in BulkKinds
    /\ tasks[t].pc = "List"
    /\ last'.op = tasks[t].kind
    /\ ~last'.failed

\* C35: getApiData for a known scope has the handlers of the event monitor
\* subscribed by the time it issues the list call of any refresh; so the
\* scope is monitored whenever a list call of it is in flight and when its
\* reply is handled, and a signal of the scope that comes after is handled.
C35_SubscribedBeforeListing ==
    [][/\ \A t \in DOMAIN tasks' :
            (/\ tasks'[t].kind \in BulkKinds
             /\ Has(tasks'[t], "monitored")
             /\ tasks'[t].conn \in Scopes)
            => tasks'[t].monitored /\ subs'[tasks'[t].conn] > 0
       /\ \A t \in DOMAIN tasks :
            (listReplied(t) /\ tasks[t].conn \in Scopes)
            => subs[tasks[t].conn] > 0 /\ subs'[tasks[t].conn] > 0]_vars

\* the list of the domains of a known scope was answered, and a signal that
\* came after it was handled
C35_Witness ==
    /\ last.op = "DomainEvent"
    /\ last.handled = 1
    /\ calls = 1
    /\ \A t \in DOMAIN tasks : tasks[t].kind # "getAllVms"
    /\ vms = EmptyObj

(***************************************************************************)
(* Settlement of a bulk refresh (SpecBulk)                                 *)
(***************************************************************************)
\* the per-entity fetches of a refresh that are still in flight
fetching == {t \in DOMAIN tasks : tasks[t].parent # 0}

\* C36: when the promise of a bulk refresh settles, every per-entity fetch it
\* started has settled: none is in flight, and a listed path whose fetch did
\* not fail and that the store lacks is not left.
C36_SettlesAfterFetches ==
    done.kind # "none" =>
        /\ fetching = {}
        /\ done.outcome = "fulfilled" =>
              done.listed \ done.failed
                  \subseteq storePaths(done.kind, done.conn)

(***************************************************************************)
(* deleteVm                                                                *)
(***************************************************************************)
\* the message of a failure, as the phrases it is made of
includes(message, phrase) == \E i \in DOMAIN message : message[i] = phrase

Messages ==
    {<<"Timeout was reached">>,
     <<"Domain not found", ": no domain with matching name 'vm1'">>,
     <<"Storage volume not found: ", "no storage vol with matching path",
       " '/f1'">>}

\* the storage pools deleteVm is given, and the disks of options.storage
PoolLists ==
    {<<>>,
     <<[connectionName |-> "system", id |-> "/pool1", name |-> "default",
        volumes |-> {[path |-> "/f1"]}]>>}

DiskChoices ==
    {[type |-> "file", source |-> [file |-> "/f1"]],
     [type |-> "volume", source |-> [pool |-> "default", volume |-> "v1"]],
     [type |-> "network", source |-> [protocol |-> "rbd"]]}

Storages ==
    {<<>>} \cup {<<d>> : d \in DiskChoices}
           \cup {<<d, e>> : d \in DiskChoices, e \in DiskChoices}

\* storagePools.find(...): the pools of the connection that hold the disk
poolsOf(poolList, connectionName, disk) ==
    {i \in DOMAIN poolList :
        /\ poolList[i].connectionName = connectionName
        /\ IF disk.type = "file"
           THEN \E vol \in poolList[i].volumes : vol.path = disk.source.file
           ELSE poolList[i].name = disk.source.pool}

\* the promises undefine() pushes for one disk, by the call each starts with
diskPromises(poolList, connectionName, disk) ==
    LET refresh == IF poolsOf(poolList, connectionName, disk) # {}
                   THEN <<[kind |-> "storagePoolRefresh", pc |-> "Refresh",
                           disk |-> disk]>>
                   ELSE <<>>
    IN  CASE disk.type = "file" ->
               <<[kind |-> "storageVolDelete",
                  pc |-> "StorageVolLookupByPath", disk |-> disk]>>
                   \o refresh
          [] disk.type = "volume" ->
               <<[kind |-> "storageVolDelete",
                  pc |-> "StoragePoolLookupByName", disk |-> disk]>>
                   \o refresh
          [] OTHER -> <<>>

RECURSIVE storageVolPromises(_, _, _)
storageVolPromises(poolList, connectionName, storage) ==
    IF storage = <<>> THEN <<>>
    ELSE diskPromises(poolList, connectionName, Head(storage))
            \o storageVolPromises(poolList, connectionName, Tail(storage))

\* the promise deleteVm returns, by the outcome of undefine():
\* with options.destroy .then is given the promise destroy() returned, which
\* is no function, so the outcome passes through; without it .catch swallows
\* a failure that tells the domain is not found
deleteVmOutcome(destroy, outcome, message) ==
    IF destroy THEN outcome
    ELSE IF outcome = "rejected" /\ includes(message, "Domain not found")
    THEN "fulfilled"
    ELSE outcome

\* undefine() settles: so does deleteVm
undefineSettled(par, outcome, message) ==
    [par EXCEPT !.pc = "settled", !.undefine = outcome,
                !.outcome = deleteVmOutcome(par.destroy, outcome, message)]

\* a Promise.all that waits for every promise and takes a failure for a
\* success
promiseAllSettled(par, t, outcome, message) ==
    IF par.pc # "all" THEN par
    ELSE IF par.pending \ {t} = {}
    THEN [par EXCEPT !.pending = {}, !.pc = "Undefine",
                     !.log = Append(@, "Undefine")]
    ELSE [par EXCEPT !.pending = @ \ {t}]

\* Promise.all(storageVolPromises).then(Undefine) when promise t settles: the
\* first failure rejects it; when the last one has fulfilled Undefine is
\* issued
promiseAll(par, t, outcome, message) ==
    IF par.pc # "all" THEN par
    ELSE IF outcome = "rejected"
    THEN undefineSettled([par EXCEPT !.pending = @ \ {t}], "rejected", message)
    ELSE IF par.pending \ {t} = {}
    THEN [par EXCEPT !.pending = {}, !.pc = "Undefine",
                     !.log = Append(@, "Undefine")]
    ELSE [par EXCEPT !.pending = @ \ {t}]

\* the chain of deleteVm.  pending: the promises Promise.all waits for; log:
\* the calls issued, in order; undefine, destroyed, outcome: how undefine(),
\* the Destroy call and deleteVm settled; promises, succeeded, failed,
\* message: the promises pushed, those that fulfilled and failed, and the
\* first failure
newDeleteVm(connectionName, objPath, destroy, first) ==
    [kind |-> "deleteVm", conn |-> connectionName, id |-> objPath,
     parent |-> 0, pc |-> "all", destroy |-> destroy, pending |-> first,
     log |-> <<>>, undefine |-> "", outcome |-> "",
     destroyed |-> "",
     promises |-> first, succeeded |-> {}, failed |-> {}, message |-> <<>>]

RECURSIVE startPromises(_, _, _, _, _)
startPromises(ts, first, promises, connectionName, parent) ==
    IF promises = <<>> THEN ts
    ELSE startPromises(
            Put(ts, first,
                Assign(Head(promises),
                       [conn |-> connectionName, id |-> "",
                        parent |-> parent])),
            first + 1, Tail(promises), connectionName, parent)

\* deleteVm: undefine() issues the first call of every promise it pushes,
\* then destroy() issues Destroy when options.destroy is set; with nothing
\* pushed Promise.all fulfils and Undefine follows
deleteVm(ts, first, connectionName, objPath, destroy, storage, poolList) ==
    LET promises == storageVolPromises(poolList, connectionName, storage)
        ids == {first + i : i \in DOMAIN promises}
        par == newDeleteVm(connectionName, objPath, destroy, ids)
        firstCalls == [i \in DOMAIN promises |-> promises[i].pc]
        issued == [par EXCEPT
                     !.log = firstCalls
                               \o IF destroy THEN <<"Destroy">> ELSE <<>>]
        started == startPromises(ts, first + 1, promises, connectionName,
                                 first)
        d == first + Len(promises) + 1
        withDestroy ==
            IF destroy
            THEN Put(started, d,
                     [kind |-> "destroy", conn |-> connectionName,
                      id |-> objPath, pc |-> "Destroy", parent |-> first])
            ELSE started
    IN  Put(withDestroy, first,
            IF ids = {}
            THEN [issued EXCEPT !.pc = "Undefine",
                                !.log = Append(@, "Undefine")]
            ELSE issued)

DeleteVm(connectionName, objPath, destroy, storage, poolList) ==
    /\ nextId = 1
    /\ tasks' = deleteVm(tasks, nextId, connectionName, objPath, destroy,
                         storage, poolList)
    /\ nextId' = nextId + 2
                    + Len(storageVolPromises(poolList, connectionName,
                                             storage))
    /\ last' = mkLast("deleteVm", connectionName, objPath, FALSE, FALSE, "",
                      <<>>, <<>>, NoBulk)
    /\ UNCHANGED <<vms, subs, devs, poller, harness>>

\* promise t of the deletions settles
promiseSettles(ts, t, outcome, message) ==
    LET p == ts[t].parent
        par == promiseAll(ts[p], t, outcome, message)
    IN  Put(Remove(ts, t), p,
            [par EXCEPT
               !.succeeded = IF outcome = "fulfilled" THEN @ \cup {t} ELSE @,
               !.failed = IF outcome = "rejected" THEN @ \cup {t} ELSE @,
               !.message = IF outcome = "rejected" /\ ts[p].failed = {}
                           THEN message ELSE @])

\* promise t issues its next call
promiseCalls(ts, t, method) ==
    LET p == ts[t].parent
    IN  [ts EXCEPT ![t].pc = method, ![p].log = Append(@, method)]

\* the call after the reply of call pc of a deletion; "" when it was the
\* last
nextCall(pc) ==
    CASE pc = "StorageVolLookupByPath" -> "Delete"
      [] pc = "StoragePoolLookupByName" -> "StorageVolLookupByName"
      [] pc = "StorageVolLookupByName" -> "Delete"
      [] OTHER -> ""

\* what a deletion does with a failure: the one of a file deletes the file
\* itself when libvirt has no volume for the path
storageVolCatch(disk, pc, message) ==
    IF /\ disk.type = "file"
       /\ pc # "replace"
       /\ includes(message, "no storage vol with matching path")
    THEN "replace"
    ELSE ""

StorageVolReply(t) ==
    /\ t \in DOMAIN tasks
    /\ tasks[t].kind = "storageVolDelete"
    /\ tasks' = IF nextCall(tasks[t].pc) = ""
                THEN promiseSettles(tasks, t, "fulfilled", <<>>)
                ELSE promiseCalls(tasks, t, nextCall(tasks[t].pc))
    /\ last' = mkLast("deleteVm." \o tasks[t].pc, tasks[t].conn, "", FALSE,
                      FALSE, "", <<>>, <<>>, NoBulk)
    /\ UNCHANGED <<vms, nextId, subs, devs, poller, harness>>

StorageVolFail(t, message) ==
    /\ t \in DOMAIN tasks
    /\ tasks[t].kind = "storageVolDelete"
    /\ tasks' = IF storageVolCatch(tasks[t].disk, tasks[t].pc, message) = ""
                THEN promiseSettles(tasks, t, "rejected", message)
                ELSE promiseCalls(tasks, t,
                        storageVolCatch(tasks[t].disk, tasks[t].pc, message))
    /\ last' = mkLast("deleteVm." \o tasks[t].pc, tasks[t].conn, "", FALSE,
                      TRUE, message, <<>>, <<>>, NoBulk)
    /\ UNCHANGED <<vms, nextId, subs, devs, poller, harness>>

StoragePoolRefreshReply(t) ==
    /\ t \in DOMAIN tasks
    /\ tasks[t].kind = "storagePoolRefresh"
    /\ tasks' = promiseSettles(tasks, t, "fulfilled", <<>>)
    /\ last' = mkLast("deleteVm.Refresh", tasks[t].conn, "", FALSE, FALSE,
                      "", <<>>, <<>>, NoBulk)
    /\ UNCHANGED <<vms, nextId, subs, devs, poller, harness>>

StoragePoolRefreshFail(t, message) ==
    /\ t \in DOMAIN tasks
    /\ tasks[t].kind = "storagePoolRefresh"
    /\ tasks' = promiseSettles(tasks, t, "rejected", message)
    /\ last' = mkLast("deleteVm.Refresh", tasks[t].conn, "", FALSE, TRUE,
                      message, <<>>, <<>>, NoBulk)
    /\ UNCHANGED <<vms, nextId, subs, devs, poller, harness>>

UndefineReply(t) ==
    /\ t \in DOMAIN tasks
    /\ tasks[t].kind = "deleteVm"
    /\ tasks[t].pc = "Undefine"
    /\ tasks' = [tasks EXCEPT ![t] = undefineSettled(@, "fulfilled", <<>>)]
    /\ last' = mkLast("deleteVm.Undefine", tasks[t].conn, tasks[t].id, FALSE,
                      FALSE, "", <<>>, <<>>, NoBulk)
    /\ UNCHANGED <<vms, nextId, subs, devs, poller, harness>>

UndefineFail(t, message) ==
    /\ t \in DOMAIN tasks
    /\ tasks[t].kind = "deleteVm"
    /\ tasks[t].pc = "Undefine"
    /\ tasks' = [tasks EXCEPT ![t] = undefineSettled(@, "rejected", message)]
    /\ last' = mkLast("deleteVm.Undefine", tasks[t].conn, tasks[t].id, FALSE,
                      TRUE, message, <<>>, <<>>, NoBulk)
    /\ UNCHANGED <<vms, nextId, subs, devs, poller, harness>>

\* the Destroy call settles: nothing is chained to its promise
DestroySettles(t, failed) ==
    /\ t \in DOMAIN tasks
    /\ tasks[t].kind = "destroy"
    /\ tasks' = [Remove(tasks, t) EXCEPT
                    ![tasks[t].parent].destroyed =
                        IF failed THEN "rejected" ELSE "fulfilled"]
    /\ last' = mkLast("deleteVm.Destroy", tasks[t].conn, tasks[t].id, FALSE,
                      failed, "", <<>>, <<>>, NoBulk)
    /\ UNCHANGED <<vms, nextId, subs, devs, poller, harness>>

DestroyReply(t) == DestroySettles(t, FALSE)

DestroyFail(t) == DestroySettles(t, TRUE)

InitDelete ==
    /\ vms = [k \in {TheVm} |-> OldVm(k)]
    /\ interfaces = EmptyObj
    /\ nodeDevices = EmptyObj
    /\ networks = EmptyObj
    /\ storagePools = EmptyObj
    /\ tasks = EmptyObj
    /\ nextId = 1
    /\ subs = [c \in ConnNames |-> 0]
    /\ timers = {}
    /\ hidden = FALSE
    /\ libvirtState = "running"
    /\ remote = EmptyObj
    /\ seen = EmptyObj
    /\ dialog = CreateVmModal
    /\ calls = 0
    /\ last = mkLast("init", "", "", FALSE, FALSE, "", <<>>, <<>>, NoBulk)

NextDelete ==
    \/ \E c \in Scopes, destroy \in BOOLEAN, storage \in Storages,
          poolList \in PoolLists :
          DeleteVm(c, TheVm[2], destroy, storage, poolList)
    \/ \E t \in DOMAIN tasks : StorageVolReply(t)
    \/ \E t \in DOMAIN tasks, m \in Messages : StorageVolFail(t, m)
    \/ \E t \in DOMAIN tasks : StoragePoolRefreshReply(t)
    \/ \E t \in DOMAIN tasks, m \in Messages : StoragePoolRefreshFail(t, m)
    \/ \E t \in DOMAIN tasks : UndefineReply(t)
    \/ \E t \in DOMAIN tasks, m \in Messages : UndefineFail(t, m)
    \/ \E t \in DOMAIN tasks : DestroyReply(t)
    \/ \E t \in DOMAIN tasks : DestroyFail(t)

SpecDelete == InitDelete /\ [][NextDelete]_vars

(***************************************************************************)
(* Properties of deleteVm (SpecDelete)                                     *)
(***************************************************************************)
deletions == {t \in DOMAIN tasks : tasks[t].kind = "deleteVm"}

\* call a is in the log
issuedCall(log, a) == \E i \in DOMAIN log : log[i] = a

\* C37: with options.destroy, Destroy is issued only after Undefine has
\* replied successfully, and the promise of deleteVm settles with the
\* outcome of Destroy.
C37_DestroyAfterUndefine ==
    \A t \in deletions :
        tasks[t].destroy =>
            /\ issuedCall(tasks[t].log, "Destroy")
                  => tasks[t].undefine = "fulfilled"
            /\ tasks[t].pc = "settled" /\ tasks[t].undefine = "fulfilled"
                  => tasks[t].outcome = tasks[t].destroyed

\* C38: Undefine is issued only once every promise of the storage deletions
\* and pool refreshes has fulfilled; when one of them has failed, Undefine is
\* not issued and deleteVm has rejected, unless options.destroy is not set
\* and the message of the failure contains "Domain not found": then deleteVm
\* has fulfilled.
C38_UndefineAfterStorage ==
    \A t \in deletions :
        /\ issuedCall(tasks[t].log, "Undefine")
              => tasks[t].succeeded = tasks[t].promises
        /\ tasks[t].failed # {} =>
              /\ ~issuedCall(tasks[t].log, "Undefine")
              /\ tasks[t].pc = "settled"
              /\ tasks[t].outcome =
                    IF /\ ~tasks[t].destroy
                       /\ includes(tasks[t].message, "Domain not found")
                    THEN "fulfilled" ELSE "rejected"

\* a deletion with two promises, of which one fulfilled and the other failed
\* telling that the domain is not found: deleteVm has fulfilled
C38_Witness ==
    \E t \in deletions :
        /\ tasks[t].succeeded # {}
        /\ tasks[t].failed # {}
        /\ ~tasks[t].destroy
        /\ includes(tasks[t].message, "Domain not found")
        /\ tasks[t].outcome = "fulfilled"

(***************************************************************************)
(* changeNetworkSettings: the change of the MAC address of an interface    *)
(***************************************************************************)
\* the MAC addresses of the dialog; "" is no new address
OldMac == "52:54:00:00:00:01"
NewMacs == {"", OldMac, "52:54:00:00:00:02"}

\* a domain document is read for its interfaces only: it is the set of their
\* MAC addresses; getIfaceElemByMac gives the element of the interface with
\* the address, or nothing ("")
getIfaceElemByMac(domXml, mac) ==
    IF mac \in domXml THEN "<interface mac='" \o mac \o "'/>" ELSE ""

\* the flags attachDevice calls AttachDevice with
attachDeviceFlags(hotplug, permanent) ==
    {"CURRENT"} \cup (IF hotplug THEN {"LIVE"} ELSE {})
                \cup (IF permanent THEN {"CONFIG"} ELSE {})

\* the device and the flags detachIface calls DetachDevice with
detachDeviceArgs(ifaceXML, ifaceInactiveXML, live, persistent) ==
    [xml |-> IF ifaceInactiveXML # "" /\ persistent
             THEN ifaceInactiveXML ELSE ifaceXML,
     flags |-> {"CURRENT"} \cup (IF live THEN {"LIVE"} ELSE {})
                  \cup (IF ifaceInactiveXML # "" /\ persistent
                        THEN {"CONFIG"} ELSE {})]

\* the running domain after AttachDevice and DetachDevice: CURRENT is its
\* live state
attached(domain, mac, flags) ==
    [live |-> domain.live \cup {mac},
     config |-> IF "CONFIG" \in flags
                THEN domain.config \cup {mac} ELSE domain.config]

detached(domain, mac, flags) ==
    [live |-> domain.live \ {mac},
     config |-> IF "CONFIG" \in flags
                THEN domain.config \ {mac} ELSE domain.config]

newChangeMac(connectionName, objPath, macAddress, newMacAddress, hotplug, persistent) ==
    [kind |-> "changeMac", conn |-> connectionName, id |-> objPath,
     parent |-> 0, pc |-> "AttachDevice", macAddress |-> macAddress,
     newMacAddress |-> newMacAddress, hotplug |-> hotplug,
     persistent |-> persistent, ifaceXML |-> "", attach |-> "",
     log |-> <<"AttachDevice">>]

\* whether changeNetworkSettings takes the branch that attaches and detaches
changesMac(macAddress, newMacAddress) ==
    newMacAddress # "" /\ newMacAddress # macAddress

changeNetworkSettings(connectionName, objPath, macAddress, newMacAddress, hotplug, persistent) ==
    IF changesMac(macAddress, newMacAddress)
    THEN newChangeMac(connectionName, objPath, macAddress, newMacAddress,
                      hotplug, persistent)
    ELSE newDeviceEdit("changeNetworkSettings", connectionName, objPath)

\* a chain that detaches the old interface whatever became of the attach
attachIfaceFinally(task, outcome) ==
    [task EXCEPT !.attach = outcome, !.pc = "GetXMLDesc",
                 !.log = Append(@, "GetXMLDesc")]

\* attachIface(...).then(() => detachIface(...)): detachIface and its first
\* call come with the success of the attach only
attachIfaceThen(task, outcome) ==
    IF outcome = "fulfilled"
    THEN [task EXCEPT !.attach = outcome, !.pc = "GetXMLDesc",
                      !.log = Append(@, "GetXMLDesc")]
    ELSE [task EXCEPT !.attach = outcome, !.pc = "rejected"]

ChangeNetworkSettings(connectionName, objPath, newMacAddress, hotplug, persistent) ==
    /\ nextId = 1
    /\ tasks' = Put(tasks, nextId,
                    changeNetworkSettings(connectionName, objPath, OldMac,
                                          newMacAddress, hotplug, persistent))
    /\ nextId' = nextId + 1
    /\ last' = mkLast("changeNetworkSettings", connectionName, objPath,
                      FALSE, FALSE, "", <<>>, <<>>, NoBulk)
    /\ UNCHANGED <<vms, subs, devs, poller, harness>>

AttachDeviceReply(t) ==
    /\ t \in DOMAIN tasks
    /\ tasks[t].kind = "changeMac"
    /\ tasks[t].pc = "AttachDevice"
    /\ remote' = attached(remote, tasks[t].newMacAddress,
                          attachDeviceFlags(tasks[t].hotplug,
                                            tasks[t].persistent))
    /\ tasks' = [tasks EXCEPT ![t] = attachIfaceThen(@, "fulfilled")]
    /\ last' = mkLast("changeNetworkSettings.AttachDevice", tasks[t].conn,
                      tasks[t].id, FALSE, FALSE, "", <<>>, <<>>, NoBulk)
    /\ UNCHANGED <<vms, nextId, subs, devs, poller, seen, dialog, calls>>

AttachDeviceFail(t) ==
    /\ t \in DOMAIN tasks
    /\ tasks[t].kind = "changeMac"
    /\ tasks[t].pc = "AttachDevice"
    /\ tasks' = [tasks EXCEPT ![t] = attachIfaceThen(@, "rejected")]
    /\ last' = mkLast("changeNetworkSettings.AttachDevice", tasks[t].conn,
                      tasks[t].id, FALSE, TRUE, "error", <<>>, <<>>, NoBulk)
    /\ UNCHANGED <<vms, nextId, subs, devs, poller, harness>>

\* detachIface: the replies of its two GetXMLDesc calls
DetachIfaceGetXMLDesc(t) ==
    /\ t \in DOMAIN tasks
    /\ tasks[t].kind = "changeMac"
    /\ tasks[t].pc = "GetXMLDesc"
    /\ tasks' = [tasks EXCEPT
                   ![t].ifaceXML = getIfaceElemByMac(remote.live,
                                                     tasks[t].macAddress),
                   ![t].pc = "GetXMLDescInactive",
                   ![t].log = Append(@, "GetXMLDesc")]
    /\ last' = mkLast("detachIface.GetXMLDesc", tasks[t].conn, tasks[t].id,
                      FALSE, FALSE, remote.live, <<>>, <<>>, NoBulk)
    /\ UNCHANGED <<vms, nextId, subs, devs, poller, harness>>

DetachIfaceGetXMLDescInactive(t) ==
    /\ t \in DOMAIN tasks
    /\ tasks[t].kind = "changeMac"
    /\ tasks[t].pc = "GetXMLDescInactive"
    /\ LET args == detachDeviceArgs(
                      tasks[t].ifaceXML,
                      getIfaceElemByMac(remote.config, tasks[t].macAddress),
                      tasks[t].hotplug, tasks[t].persistent)
       IN  tasks' = [tasks EXCEPT
                       ![t] = Assign(@, [pc |-> "DetachDevice",
                                         detach |-> args,
                                         log |-> Append(tasks[t].log,
                                                        "DetachDevice")])]
    /\ last' = mkLast("detachIface.GetXMLDescInactive", tasks[t].conn,
                      tasks[t].id, FALSE, FALSE, remote.config, <<>>, <<>>,
                      NoBulk)
    /\ UNCHANGED <<vms, nextId, subs, devs, poller, harness>>

\* DetachDevice replies: the interface is gone, and detachIface ends with
\* getVm
DetachDeviceReply(t) ==
    /\ t \in DOMAIN tasks
    /\ tasks[t].kind = "changeMac"
    /\ tasks[t].pc = "DetachDevice"
    /\ tasks[t].detach.xml # ""
    /\ remote' = detached(remote, tasks[t].macAddress,
                          tasks[t].detach.flags)
    /\ tasks' = Put([tasks EXCEPT ![t].pc = "getVm"], nextId,
                    newGetVm(tasks[t].conn, tasks[t].id, FALSE, 0))
    /\ nextId' = nextId + 1
    /\ last' = mkLast("detachIface.DetachDevice", tasks[t].conn,
                      tasks[t].id, FALSE, FALSE, "", <<>>, <<>>, NoBulk)
    /\ UNCHANGED <<vms, subs, devs, poller, seen, dialog, calls>>

\* a call of detachIface fails: nothing catches it
DetachIfaceFail(t) ==
    /\ t \in DOMAIN tasks
    /\ tasks[t].kind = "changeMac"
    /\ tasks[t].pc \in {"GetXMLDesc", "GetXMLDescInactive", "DetachDevice"}
    /\ tasks' = [tasks EXCEPT ![t].pc = "rejected"]
    /\ last' = mkLast("detachIface." \o tasks[t].pc, tasks[t].conn,
                      tasks[t].id, FALSE, TRUE, "error", <<>>, <<>>, NoBulk)
    /\ UNCHANGED <<vms, nextId, subs, devs, poller, harness>>

InitMac ==
    /\ vms = [k \in {TheVm} |-> OldVm(k)]
    /\ interfaces = EmptyObj
    /\ nodeDevices = EmptyObj
    /\ networks = EmptyObj
    /\ storagePools = EmptyObj
    /\ tasks = EmptyObj
    /\ nextId = 1
    /\ subs = [c \in ConnNames |-> 0]
    /\ timers = {}
    /\ hidden = FALSE
    /\ libvirtState = "running"
    /\ remote \in [live : {{OldMac}}, config : {{}, {OldMac}}]
    /\ seen = EmptyObj
    /\ dialog = CreateVmModal
    /\ calls = 0
    /\ last = mkLast("init", "", "", FALSE, FALSE, "", <<>>, <<>>, NoBulk)

NextMac ==
    \/ \E c \in Scopes, newMacAddress \in NewMacs, hotplug \in BOOLEAN,
          persistent \in BOOLEAN :
          ChangeNetworkSettings(c, TheVm[2], newMacAddress, hotplug,
                                persistent)
    \/ \E t \in DOMAIN tasks : AttachDeviceReply(t)
    \/ \E t \in DOMAIN tasks : AttachDeviceFail(t)
    \/ \E t \in DOMAIN tasks : DetachIfaceGetXMLDesc(t)
    \/ \E t \in DOMAIN tasks : DetachIfaceGetXMLDescInactive(t)
    \/ \E t \in DOMAIN tasks : DetachDeviceReply(t)
    \/ \E t \in DOMAIN tasks : DetachIfaceFail(t)
    \/ \E t \in DOMAIN tasks : GetVmFail(t)
    \/ \E t \in DOMAIN tasks : DeviceEditFail(t)
    \/ \E t \in DOMAIN tasks : DeviceEditGetXMLDesc(t)
    \/ \E t \in DOMAIN tasks : DeviceEditReply(t)

SpecMac == InitMac /\ [][NextMac]_vars

(***************************************************************************)
(* Properties of the change of a MAC address (SpecMac)                     *)
(***************************************************************************)
macChanges == {t \in DOMAIN tasks : tasks[t].kind = "changeMac"}

\* C39: when changeNetworkSettings changes the MAC address, AttachDevice is
\* the first call; DetachDevice, and every call of detachIface, is issued
\* only once the attach has succeeded; when the attach has failed nothing
\* more is issued and the interface with the old address is still attached.
C39_AttachBeforeDetach ==
    \A t \in macChanges :
        /\ tasks[t].log[1] = "AttachDevice"
        /\ Len(tasks[t].log) > 1 => tasks[t].attach = "fulfilled"
        /\ issuedCall(tasks[t].log, "DetachDevice")
              => /\ tasks[t].attach = "fulfilled"
                 /\ tasks[t].newMacAddress \in remote.live
        /\ tasks[t].attach = "rejected"
              => /\ tasks[t].log = <<"AttachDevice">>
                 /\ tasks[t].pc = "rejected"
                 /\ tasks[t].macAddress \in remote.live

\* the attach of the new address failed
C39_Witness ==
    \E t \in macChanges :
        /\ tasks[t].attach = "rejected"
        /\ tasks[t].newMacAddress # tasks[t].macAddress
        /\ last.op = "changeNetworkSettings.AttachDevice"
        /\ last.failed

\* the attach succeeded and the old interface was detached after it
C39_DetachedWitness ==
    \E t \in macChanges :
        /\ tasks[t].pc = "getVm"
        /\ tasks[t].macAddress \notin remote.live
        /\ tasks[t].newMacAddress \in remote.live

====
